---- MODULE Spec2Model ----
(***************************************************************************)
(* Conversation orchestration engine of mcp_service_llm: the tool registry *)
(* and executor (ToolHandlerService), the history adapters, the provider   *)
(* adapters' normalisation, the session store (SessionCacheService) and    *)
(* the two bounded loops (ChatService.runLLMLoop and                       *)
(* OrchestratorService.runLLMLoopNative).                                  *)
(*                                                                         *)
(* JavaScript values are modelled as follows.  An object is a record; an   *)
(* absent (undefined) property is an absent field.  A text is a string,    *)
(* null is the reserved string Null.  A message built by a template        *)
(* literal is the sequence of its pieces.  A JSON text is [json |-> v]     *)
(* for the value v it serialises.  An argument mapping is a set of         *)
(* <<key, value>> pairs.  A Map is the sequence of its entries in          *)
(* insertion order.                                                        *)
(***************************************************************************)
EXTENDS Integers, Sequences, FiniteSets, TLC

VARIABLES
    toolRegistry,   \* ToolHandlerService.toolRegistry
    exec,           \* the executeTool call in flight on the registry, or NoExec
    firstReg,       \* per name, the first registration since the name was last absent
    lastOp,         \* the last registry operation that returned, with what it returned
    sessions,       \* SessionCacheService.sessions
    shared,         \* the stored nativeHistory is the very array the loop holds
    svc,            \* which service runs the request: "chat" or "orch"
    model,          \* the behaviour of the vendor's model during the request
    pc,             \* where the request is suspended
    providerName,   \* provider.getProviderName()
    historyManager, \* the provider the history manager was selected by
    nativeHistory,  \* the loop's transcript
    depth,          \* the depth parameter of the running loop call
    response,       \* the LLMResponse of the round in progress
    idx,            \* index of the tool call being executed
    outcome,        \* how processMessage settled
    invocations,    \* model invocations made by the request
    roundStart,     \* length of the transcript when the round's tool-call turn was appended
    started,        \* handlers started in the round in progress
    userTurn,       \* index of the request's user turn in the loop's transcript
    now,            \* the clock new Date() and Date.now() read, in milliseconds
    touched,        \* per session id, the time of the last operation that used the session
    requests,       \* the ChatService requests that run side by side, each with its position
    owner,          \* per session id, the request whose array the store holds, or "none"
    alone,          \* per session id, the store as the requests for that id alone make it
    inputMessages,  \* the agnostic message list handed to the history adapters
    arrays,         \* the provider-format arrays made so far, each with the adapter that made it
    call,           \* the last call of a history adapter, with what it returned
    defaultConfig,  \* DEFAULT_LLM_CONFIG.provider of the deployment
    served,         \* requests the deployment has taken so far
    config,         \* BaseLLMProvider.config, its arrays held by reference
    copy,           \* the object a caller got from getConfig, or NoCopy
    lists,          \* the arrays the configuration objects refer to
    updates         \* calls of updateConfig so far

toolVars == <<toolRegistry, exec, firstReg, lastOp>>
loopVars == <<sessions, shared, svc, model, pc, providerName, historyManager,
              nativeHistory, depth, response, idx, outcome, invocations,
              roundStart, started, userTurn>>
adapterVars == <<inputMessages, arrays, call>>
cfgVars == <<defaultConfig, served, config, copy, lists, updates>>
extVars == <<now, touched, requests, owner, alone, inputMessages, arrays, call,
             cfgVars>>
vars == <<toolRegistry, exec, firstReg, lastOp,
          sessions, shared, svc,
          model, pc, providerName, historyManager, nativeHistory, depth,
          response, idx, outcome, invocations, roundStart, started, userTurn,
          now, touched, requests, owner, alone, inputMessages, arrays, call,
          defaultConfig, served, config, copy, lists, updates>>

---------------------------------------------------------------------------
(* Bounds of the model *)

\* rounds of a request in which the vendor's reply is drawn freely
MaxVaried == 2

\* the clock reaches q * TTL_MS and q * TTL_MS + 1 for q up to MaxTicks
MaxTicks == 1

\* transcripts handed to updateHistory are up to MaxOver entries over the cap
MaxOver == 2

\* rounds of tool calls a request makes when requests run side by side
MaxRounds == 1

\* length of the agnostic message lists handed to the history adapters
MaxLen == 2

\* provider-format arrays the history adapters make in one behaviour
MaxArrays == 2

\* requests one deployment takes, one after the other
MaxMessages == 2

\* model invocations made on one provider adapter
MaxCalls == 2

\* calls of updateConfig on one provider adapter
MaxUpdates == 2

(* Program constants *)

ChatMAX_DEPTH == 128
OrchMAX_DEPTH == 10
MAX_HISTORY_LENGTH == 100
TTL_MS == 30 * 60 * 1000 * 5

Null == "<null>"
NoExec == [kind |-> "none"]
NoResponse == [text |-> Null, toolCalls |-> << >>]
NoOutcome == [kind |-> "pending"]

---------------------------------------------------------------------------
(* Small helpers for JavaScript idioms *)

\* Array.prototype.slice(-n)
SliceLast(arr, n) ==
    IF Len(arr) <= n THEN arr ELSE SubSeq(arr, Len(arr) - n + 1, Len(arr))

\* args[key], "undefined" when the mapping has no such key
ArgGet(args, key) ==
    IF \E p \in args : p[1] = key
    THEN (CHOOSE p \in args : p[1] = key)[2]
    ELSE "undefined"

\* names.join(', ')
RECURSIVE Join(_)
Join(names) ==
    IF names = << >> THEN << >>
    ELSE IF Len(names) = 1 THEN <<names[1]>>
    ELSE <<names[1], ", ">> \o Join(Tail(names))

JSONstringify(v) == [json |-> v]

JSONparseLenient(s) ==
    IF "json" \in DOMAIN s
    THEN [ok |-> TRUE, value |-> s.json]
    ELSE [ok |-> TRUE, value |-> {}]

\* JSON.parse: the value a JSON text serialises, a SyntaxError otherwise
JSONparse(s) ==
    IF "json" \in DOMAIN s
    THEN [ok |-> TRUE, value |-> s.json]
    ELSE [ok |-> FALSE, error |-> [message |-> <<"SyntaxError">>]]

---------------------------------------------------------------------------
(* Tool Registry & Executor: ToolHandlerService *)

ToolDef(name, description) == [name |-> name, description |-> description]

\* Map.has(name)
hasTool(registry, name) == \E i \in 1..Len(registry) : registry[i].key = name

\* Map.get(name), for a name the registry has
RegistryGet(registry, name) ==
    registry[CHOOSE i \in 1..Len(registry) : registry[i].key = name].value

getToolNames(registry) == [i \in 1..Len(registry) |-> registry[i].key]

getRegisteredTools(registry) ==
    [i \in 1..Len(registry) |-> registry[i].value.definition]

\* a registerTool that overwrites the entry of a name already present
registerToolLastWins(registry, definition, handler) ==
    LET entry == [key |-> definition.name,
                  value |-> [definition |-> definition, handler |-> handler]]
        Other(e) == e.key # definition.name
    IN  Append(SelectSeq(registry, Other), entry)

registerTool(registry, definition, handler) ==
    IF hasTool(registry, definition.name)
    THEN registry
    ELSE Append(registry,
                [key |-> definition.name,
                 value |-> [definition |-> definition, handler |-> handler]])

unregisterTool(registry, name) ==
    LET Other(e) == e.key # name
    IN  SelectSeq(registry, Other)

\* the registry after the constructor: registerBuiltInTools registers echo
EchoDefinition == ToolDef("echo", "Echo back the input message")
ConstructedRegistry == registerTool(<< >>, EchoDefinition, "echo")

\* a validateToolCall that forgets to look the name up
validateToolCallNoLookup(registry, toolCall) ==
    LET noName == "name" \notin DOMAIN toolCall \/ toolCall.name = ""
        e1 == IF noName THEN <<"Tool name is required">> ELSE << >>
        e2 == IF "args" \notin DOMAIN toolCall
              THEN <<"Tool arguments are required">> ELSE << >>
    IN  [valid |-> (e1 \o e2) = << >>, errors |-> e1 \o e2]

validateToolCall(registry, toolCall) ==
    LET noName == "name" \notin DOMAIN toolCall \/ toolCall.name = ""
        e1 == IF noName THEN <<"Tool name is required">> ELSE << >>
        e2 == IF "args" \notin DOMAIN toolCall
              THEN <<"Tool arguments are required">> ELSE << >>
        e3 == IF ~noName /\ ~hasTool(registry, toolCall.name)
              THEN <<"Tool is not registered">> ELSE << >>
        errors == e1 \o e2 \o e3
    IN  [valid |-> errors = << >>, errors |-> errors]

\* what a failed property read of undefined throws
TypeError == [message |-> <<"Cannot read properties of undefined">>]

\* an executeTool that throws on an unknown name
executeToolStartThrows(registry, toolCall) ==
    IF ~hasTool(registry, toolCall.name)
    THEN [kind |-> "rejected",
          error |-> [message |-> <<"Unknown tool: ", toolCall.name>>]]
    ELSE [kind |-> "awaiting",
          handler |-> RegistryGet(registry, toolCall.name).handler]

\* executeTool up to its await: the lookup, and the handler it invokes
executeToolStart(registry, toolCall) ==
    IF ~hasTool(registry, toolCall.name)
    THEN [kind |-> "resolved",
          result |-> [success |-> FALSE,
                      message |-> <<"Unknown tool: ", toolCall.name,
                                    ". Available tools: ">>
                                  \o Join(getToolNames(registry))]]
    ELSE [kind |-> "awaiting",
          handler |-> RegistryGet(registry, toolCall.name).handler]

\* executeTool from the settling of the handler's promise: settled is
\* [kind |-> "resolve", result |-> r], [kind |-> "resolve"] (undefined),
\* [kind |-> "reject", error |-> e] or [kind |-> "reject"] (undefined)
executeToolSettle(settled) ==
    IF settled.kind = "resolve"
    THEN IF "result" \in DOMAIN settled
         THEN [kind |-> "resolved", result |-> settled.result]
         ELSE [kind |-> "resolved",
               result |-> [success |-> FALSE,
                           message |-> <<"Tool execution failed: ">>
                                       \o TypeError.message]]
    ELSE IF "error" \in DOMAIN settled
         THEN [kind |-> "resolved",
               result |-> [success |-> FALSE,
                           message |-> <<"Tool execution failed: ">>
                                       \o settled.error.message]]
         ELSE [kind |-> "rejected", error |-> TypeError]

(* The handlers.  "echo" is the one the constructor registers,             *)
(* "transfer_money" the two-phase tool ChatService registers; "customA"    *)
(* and "customB" stand for any function of type ToolHandler.               *)

EchoSettlements(toolCall) ==
    IF "args" \notin DOMAIN toolCall
    THEN {[kind |-> "reject", error |-> TypeError]}
    ELSE {[kind |-> "resolve",
           result |-> [success |-> TRUE,
                       message |-> <<"Echo: ", ArgGet(toolCall.args, "message")>>,
                       data |-> [echoed |-> ArgGet(toolCall.args, "message")]]]}

TransferMoneySettlements(toolCall) ==
    LET isConfirmed == ArgGet(toolCall.args, "isConfirmed") = "true"
    IN  { [kind |-> "resolve",
           result |-> [success |-> TRUE,
                       message |-> IF isConfirmed
                                   THEN <<"Transfer completed">>
                                   ELSE <<"Transfer preview generated">>,
                       data |-> [status |-> "1",
                                 transfer |-> IF isConfirmed THEN "completed"
                                              ELSE "preview"]]],
          [kind |-> "resolve",
           result |-> [success |-> FALSE,
                       message |-> <<"Insufficient funds">>,
                       data |-> [status |-> "0",
                                 processCode |-> "E42",
                                 processMessage |-> "Insufficient funds"]]],
          [kind |-> "resolve",
           result |-> [success |-> FALSE,
                       message |-> <<"Transfer failed: ", "timeout">>]] }

CustomSettlements(handler) ==
    { [kind |-> "resolve",
       result |-> [success |-> TRUE, message |-> <<"done by ", handler>>,
                   data |-> [by |-> handler]]],
      [kind |-> "resolve",
       result |-> [success |-> FALSE, message |-> <<"declined by ", handler>>]],
      [kind |-> "resolve"],
      [kind |-> "reject", error |-> [message |-> <<"boom in ", handler>>]],
      [kind |-> "reject"] }

\* the ways the promise of handler(toolCall, context) can settle
HandlerSettlements(handler, toolCall) ==
    CASE handler = "echo" -> EchoSettlements(toolCall)
      [] handler = "transfer_money" -> TransferMoneySettlements(toolCall)
      [] OTHER -> CustomSettlements(handler)

---------------------------------------------------------------------------
(* History adapters: GeminiHistoryManager and OpenAIHistoryManager *)

\* an object none of whose properties is defined
EmptyObject == [x \in {} |-> Null]

\* result.data ?? { success, message }
ResultPayload(result) ==
    IF "data" \in DOMAIN result
    THEN result.data
    ELSE [success |-> result.success, message |-> result.message]

GeminiAddUserMessage(history, content) ==
    Append(history, [role |-> "user", parts |-> <<[text |-> content]>>])

GeminiAddAssistantMessage(history, content) ==
    Append(history, [role |-> "model", parts |-> <<[text |-> content]>>])

\* rawResponse?.candidates?.[0]?.content
HasRawContent(rawResponse) ==
    /\ "candidates" \in DOMAIN rawResponse
    /\ Len(rawResponse.candidates) > 0
    /\ "content" \in DOMAIN rawResponse.candidates[1]

GeminiAddAssistantToolCalls(history, toolCalls, rawResponse) ==
    IF HasRawContent(rawResponse)
    THEN Append(history, rawResponse.candidates[1].content)
    ELSE Append(history,
                [role |-> "model",
                 parts |-> [i \in 1..Len(toolCalls) |->
                              [functionCall |-> [name |-> toolCalls[i].name,
                                                 args |-> toolCalls[i].args]]]])

GeminiAddToolResultsFirst(history, toolCall, result) ==
    LET entry == [role |-> "user",
                  parts |-> <<[functionResponse |->
                                 [name |-> toolCall.name,
                                  response |-> [result |-> ResultPayload(result)]]]>>]
        n == Len(history)
    IN  IF n > 0 /\ "functionResponse" \in DOMAIN history[n].parts[1]
        THEN SubSeq(history, 1, n - 1) \o <<entry, history[n]>>
        ELSE Append(history, entry)

GeminiAddToolResults(history, toolCall, result) ==
    Append(history,
           [role |-> "user",
            parts |-> <<[functionResponse |->
                           [name |-> toolCall.name,
                            response |-> [result |-> ResultPayload(result)]]]>>])

OpenAIAddUserMessageInFront(history, content) ==
    <<[role |-> "user", content |-> content]>> \o history

OpenAIAddUserMessage(history, content) ==
    Append(history, [role |-> "user", content |-> content])

OpenAIAddAssistantMessage(history, content) ==
    Append(history, [role |-> "assistant", content |-> content])

OpenAIToolCallEntry(toolCalls) ==
    [role |-> "assistant",
     content |-> Null,
     tool_calls |-> [i \in 1..Len(toolCalls) |->
                       [id |-> toolCalls[i].id,
                        type |-> "function",
                        function |-> [name |-> toolCalls[i].name,
                                      arguments |-> JSONstringify(toolCalls[i].args)]]]]

OpenAIAddAssistantToolCalls(history, toolCalls, rawResponse) ==
    Append(history, OpenAIToolCallEntry(toolCalls))

OpenAIAddToolResults(history, toolCall, result) ==
    Append(history,
           [role |-> "tool",
            tool_call_id |-> toolCall.id,
            content |-> JSONstringify(ResultPayload(result))])

\* msg.content || ''
ContentOrEmpty(msg) ==
    IF "content" \in DOMAIN msg /\ msg.content # Null THEN msg.content ELSE ""

HasToolCalls(msg) == "toolCalls" \in DOMAIN msg /\ Len(msg.toolCalls) > 0

GeminiToProviderEntry(msg) ==
    IF msg.role = "user"
    THEN <<[role |-> "user", parts |-> <<[text |-> ContentOrEmpty(msg)]>>]>>
    ELSE IF msg.role = "assistant"
    THEN IF HasToolCalls(msg)
         THEN <<[role |-> "model",
                 parts |-> [i \in 1..Len(msg.toolCalls) |->
                              [functionCall |-> [name |-> msg.toolCalls[i].name,
                                                 args |-> msg.toolCalls[i].args]]]]>>
         ELSE <<[role |-> "model", parts |-> <<[text |-> ContentOrEmpty(msg)]>>]>>
    ELSE IF msg.role = "tool"
    THEN <<[role |-> "user",
            parts |-> <<[functionResponse |->
                           IF "toolResult" \in DOMAIN msg
                           THEN [name |-> IF msg.toolResult.callId = ""
                                          THEN "unknown"
                                          ELSE msg.toolResult.callId,
                                 response |-> [result |-> msg.toolResult.result]]
                           ELSE [name |-> "unknown", response |-> EmptyObject]]>>]>>
    ELSE << >>

RECURSIVE GeminiToProviderFormat(_)
GeminiToProviderFormat(messages) ==
    IF messages = << >> THEN << >>
    ELSE GeminiToProviderEntry(Head(messages))
         \o GeminiToProviderFormat(Tail(messages))

OpenAIToProviderEntry(msg) ==
    IF msg.role = "user"
    THEN <<[role |-> "user", content |-> ContentOrEmpty(msg)]>>
    ELSE IF msg.role = "assistant"
    THEN IF HasToolCalls(msg)
         THEN <<OpenAIToolCallEntry(msg.toolCalls)>>
         ELSE <<[role |-> "assistant", content |-> ContentOrEmpty(msg)]>>
    ELSE IF msg.role = "tool"
    THEN IF "toolResult" \in DOMAIN msg
         THEN <<[role |-> "tool",
                 tool_call_id |-> msg.toolResult.callId,
                 content |-> JSONstringify(msg.toolResult.result)]>>
         ELSE <<[role |-> "tool"]>>
    ELSE << >>

RECURSIVE OpenAIToProviderFormat(_)
OpenAIToProviderFormat(messages) ==
    IF messages = << >> THEN << >>
    ELSE OpenAIToProviderEntry(Head(messages))
         \o OpenAIToProviderFormat(Tail(messages))

IsFunctionCallPart(p) == "functionCall" \in DOMAIN p
IsFunctionResponsePart(p) == "functionResponse" \in DOMAIN p
IsNonEmptyTextPart(p) == "text" \in DOMAIN p /\ p.text # ""

\* textParts.map(p => p.text).join('')
RECURSIVE JoinTexts(_)
JoinTexts(parts) ==
    IF parts = << >> THEN "" ELSE Head(parts).text \o JoinTexts(Tail(parts))

GeminiToolMessageNoResult(p) ==
    [role |-> "tool",
     toolResult |-> [callId |-> p.functionResponse.name, result |-> EmptyObject]]

\* { callId: name, result: response?.result }
GeminiToolMessage(p) ==
    IF /\ "response" \in DOMAIN p.functionResponse
       /\ "result" \in DOMAIN p.functionResponse.response
    THEN [role |-> "tool",
          toolResult |-> [callId |-> p.functionResponse.name,
                          result |-> p.functionResponse.response.result]]
    ELSE [role |-> "tool", toolResult |-> [callId |-> p.functionResponse.name]]

GeminiToAgnosticEntry(entry) ==
    LET parts == IF "parts" \in DOMAIN entry THEN entry.parts ELSE << >>
        calls == SelectSeq(parts, IsFunctionCallPart)
        results == SelectSeq(parts, IsFunctionResponsePart)
        texts == SelectSeq(parts, IsNonEmptyTextPart)
    IN  IF Len(calls) > 0
        THEN <<[role |-> "assistant",
                toolCalls |-> [i \in 1..Len(calls) |->
                                 [id |-> calls[i].functionCall.name,
                                  name |-> calls[i].functionCall.name,
                                  args |-> IF "args" \in DOMAIN calls[i].functionCall
                                           THEN calls[i].functionCall.args
                                           ELSE {}]]]>>
        ELSE IF Len(results) > 0
        THEN [i \in 1..Len(results) |-> GeminiToolMessage(results[i])]
        ELSE IF Len(texts) > 0
        THEN <<[role |-> IF entry.role = "model" THEN "assistant" ELSE "user",
                content |-> JoinTexts(texts)]>>
        ELSE << >>

RECURSIVE GeminiToAgnosticFormat(_)
GeminiToAgnosticFormat(providerHistory) ==
    IF providerHistory = << >> THEN << >>
    ELSE GeminiToAgnosticEntry(Head(providerHistory))
         \o GeminiToAgnosticFormat(Tail(providerHistory))

\* JSON.parse(text || '{}')
JSONparseOrEmpty(holder, field) ==
    IF field \in DOMAIN holder THEN JSONparse(holder[field])
    ELSE [ok |-> TRUE, value |-> EmptyObject]

\* the messages an entry becomes, or the SyntaxError JSON.parse throws
OpenAIToAgnosticEntry(entry) ==
    IF entry.role = "user"
    THEN [ok |-> TRUE, messages |-> <<[role |-> "user", content |-> entry.content]>>]
    ELSE IF entry.role = "assistant"
    THEN IF "tool_calls" \in DOMAIN entry /\ Len(entry.tool_calls) > 0
         THEN LET calls == entry.tool_calls
                  parsed == [i \in 1..Len(calls) |->
                               JSONparseOrEmpty(calls[i].function, "arguments")]
              IN  IF \E i \in 1..Len(calls) : ~parsed[i].ok
                  THEN [ok |-> FALSE, error |-> [message |-> <<"SyntaxError">>]]
                  ELSE [ok |-> TRUE,
                        messages |-> <<[role |-> "assistant",
                                        toolCalls |-> [i \in 1..Len(calls) |->
                                                         [id |-> calls[i].id,
                                                          name |-> calls[i].function.name,
                                                          args |-> parsed[i].value]]]>>]
         ELSE [ok |-> TRUE,
               messages |-> <<[role |-> "assistant", content |-> entry.content]>>]
    ELSE IF entry.role = "tool"
    THEN LET parsed == JSONparseOrEmpty(entry, "content")
         IN  IF ~parsed.ok
             THEN [ok |-> FALSE, error |-> parsed.error]
             ELSE [ok |-> TRUE,
                   messages |-> <<[role |-> "tool",
                                   toolResult |-> [callId |-> entry.tool_call_id,
                                                   result |-> parsed.value]]>>]
    ELSE [ok |-> TRUE, messages |-> << >>]

RECURSIVE OpenAIToAgnosticFormat(_)
OpenAIToAgnosticFormat(providerHistory) ==
    IF providerHistory = << >> THEN [ok |-> TRUE, messages |-> << >>]
    ELSE LET first == OpenAIToAgnosticEntry(Head(providerHistory))
             rest == OpenAIToAgnosticFormat(Tail(providerHistory))
         IN  IF ~first.ok THEN first
             ELSE IF ~rest.ok THEN rest
             ELSE [ok |-> TRUE, messages |-> first.messages \o rest.messages]

ManagerOfAlwaysOpenAI(provider) == "openai"

\* getHistoryManager(provider): 'anthropic' gets the OpenAI manager
ManagerOf(provider) == IF provider = "gemini" THEN "gemini" ELSE "openai"

addUserMessage(provider, history, content) ==
    IF ManagerOf(provider) = "gemini"
    THEN GeminiAddUserMessage(history, content)
    ELSE OpenAIAddUserMessage(history, content)

addAssistantMessage(provider, history, content) ==
    IF ManagerOf(provider) = "gemini"
    THEN GeminiAddAssistantMessage(history, content)
    ELSE OpenAIAddAssistantMessage(history, content)

addAssistantToolCalls(provider, history, toolCalls, rawResponse) ==
    IF ManagerOf(provider) = "gemini"
    THEN GeminiAddAssistantToolCalls(history, toolCalls, rawResponse)
    ELSE OpenAIAddAssistantToolCalls(history, toolCalls, rawResponse)

addToolResults(provider, history, toolCall, result) ==
    IF ManagerOf(provider) = "gemini"
    THEN GeminiAddToolResults(history, toolCall, result)
    ELSE OpenAIAddToolResults(history, toolCall, result)

toAgnosticFormat(provider, providerHistory) ==
    IF ManagerOf(provider) = "gemini"
    THEN [ok |-> TRUE, messages |-> GeminiToAgnosticFormat(providerHistory)]
    ELSE OpenAIToAgnosticFormat(providerHistory)

toProviderFormat(provider, messages) ==
    IF ManagerOf(provider) = "gemini"
    THEN GeminiToProviderFormat(messages)
    ELSE OpenAIToProviderFormat(messages)

---------------------------------------------------------------------------
(* Provider adapters: the normalisation of a vendor reply *)

ZeroUsage == [inputTokens |-> 0, outputTokens |-> 0, totalTokens |-> 0]

CountNoDefault(holder, field) ==
    IF field \in DOMAIN holder THEN holder[field] ELSE -1

\* holder.field || 0
Count(holder, field) ==
    IF field \in DOMAIN holder THEN holder[field] ELSE 0

\* usage?.promptTokenCount || 0, and so on
GeminiUsage(reply) ==
    IF "usageMetadata" \in DOMAIN reply
    THEN [inputTokens |-> Count(reply.usageMetadata, "promptTokenCount"),
          outputTokens |-> Count(reply.usageMetadata, "candidatesTokenCount"),
          totalTokens |-> Count(reply.usageMetadata, "totalTokenCount")]
    ELSE ZeroUsage

IsTextPart(p) == "text" \in DOMAIN p
IsNamedFunctionCall(p) == "functionCall" \in DOMAIN p /\ p.functionCall.name # ""

\* GeminiProvider.parseGeminiResponse
parseGeminiResponse(reply) ==
    IF \/ ~HasRawContent(reply)
       \/ "parts" \notin DOMAIN reply.candidates[1].content
       \/ Len(reply.candidates[1].content.parts) = 0
    THEN [text |-> Null, toolCalls |-> << >>, usage |-> GeminiUsage(reply),
          rawResponse |-> reply]
    ELSE LET parts == reply.candidates[1].content.parts
             texts == SelectSeq(parts, IsTextPart)
             calls == SelectSeq(parts, IsNamedFunctionCall)
         IN  [text |-> IF texts = << >> THEN Null ELSE texts[1].text,
              toolCalls |-> [i \in 1..Len(calls) |->
                               [id |-> calls[i].functionCall.name,
                                name |-> calls[i].functionCall.name,
                                args |-> IF "args" \in DOMAIN calls[i].functionCall
                                         THEN calls[i].functionCall.args
                                         ELSE {}]],
              usage |-> GeminiUsage(reply),
              rawResponse |-> reply]

\* response.usage?.prompt_tokens || 0, and so on
OpenAIUsage(reply) ==
    IF "usage" \in DOMAIN reply
    THEN [inputTokens |-> Count(reply.usage, "prompt_tokens"),
          outputTokens |-> Count(reply.usage, "completion_tokens"),
          totalTokens |-> Count(reply.usage, "total_tokens")]
    ELSE ZeroUsage

\* the normalisation at the end of OpenAIProvider.executeRequest; JSON.parse
\* of a tool call's arguments may throw
OpenAINormalize(reply) ==
    LET message == reply.choices[1].message
        calls == IF "tool_calls" \in DOMAIN message THEN message.tool_calls
                 ELSE << >>
        bad == {i \in 1..Len(calls) : ~JSONparse(calls[i].function.arguments).ok}
    IN  IF bad # {}
        THEN [ok |-> FALSE,
              error |-> JSONparse(calls[CHOOSE i \in bad : \A j \in bad : i <= j]
                                    .function.arguments).error]
        ELSE [ok |-> TRUE,
              response |->
                [text |-> message.content,
                 toolCalls |-> [i \in 1..Len(calls) |->
                                  [id |-> calls[i].id,
                                   name |-> calls[i].function.name,
                                   args |-> JSONparse(calls[i].function.arguments).value]],
                 usage |-> OpenAIUsage(reply),
                 rawResponse |-> reply]]

\* what generateWithNativeHistory makes of the vendor's reply
Normalize(provider, reply) ==
    IF provider = "gemini"
    THEN [ok |-> TRUE, response |-> parseGeminiResponse(reply)]
    ELSE OpenAINormalize(reply)

\* what generateWithNativeHistory throws when the vendor call fails: the
\* Gemini adapter wraps a 'fetch failed' error, everything else is rethrown
ProviderError(provider, vendorError) ==
    IF provider = "gemini" /\ vendorError.message = <<"fetch failed">>
    THEN [message |-> <<"Failed to connect to Gemini API: ">> \o vendorError.message]
    ELSE vendorError

---------------------------------------------------------------------------
(* The registry specification: any sequence of registerTool,               *)
(* unregisterTool, validateToolCall and executeTool calls on one           *)
(* ToolHandlerService, with handlers suspended across other calls.         *)

RegNames == {"echo", "get_weather"}
RegDescriptions == {"v1", "v2"}
RegHandlers == {"customA", "customB"}
NoReg == [definition |-> ToolDef("", ""), handler |-> ""]

ExecCalls ==
    { [id |-> "c1", name |-> n, args |-> {<<"message", "hi">>}]
        : n \in {"echo", "get_weather", "ghost"} }

ValidateCalls ==
    { [id |-> "c1", name |-> n, args |-> a]
        : n \in {"", "echo", "get_weather"}, a \in {{}, {<<"message", "hi">>}} }
    \cup { [id |-> "c1", name |-> n] : n \in {"", "echo", "get_weather"} }
    \cup { [id |-> "c1", args |-> {}], [id |-> "c1"] }

\* DEFAULT_LLM_CONFIG.provider
DefaultProvider == "gemini"

\* the LLMConfig LLMFactoryService.getProvider makes of DEFAULT_LLM_CONFIG
FactoryConfig ==
    [model |-> "gemini-2.5-pro", temperature |-> "0.7", maxTokens |-> 8192,
     topP |-> "0.95"]

\* no caller holds an object returned by getConfig
NoCopy == [none |-> TRUE]

\* the deployment runs the configuration of the source
CfgIdle ==
    /\ defaultConfig = DefaultProvider
    /\ served = 0
    /\ config = FactoryConfig
    /\ copy = NoCopy
    /\ lists = << >>
    /\ updates = 0

\* no request is running and the session store is empty
LoopIdle ==
    /\ sessions = << >>
    /\ shared = FALSE
    /\ svc = "none"
    /\ model = "none"
    /\ pc = "idle"
    /\ providerName = "none"
    /\ historyManager = "none"
    /\ nativeHistory = << >>
    /\ depth = 0
    /\ response = NoResponse
    /\ idx = 0
    /\ outcome = NoOutcome
    /\ invocations = 0
    /\ roundStart = 0
    /\ started = 0
    /\ userTurn = 0
    /\ now = 0
    /\ touched = << >>
    /\ requests = << >>
    /\ owner = << >>
    /\ alone = << >>
    /\ inputMessages = << >>
    /\ arrays = << >>
    /\ call = [op |-> "none"]
    /\ CfgIdle

ToolsInit ==
    /\ toolRegistry = ConstructedRegistry
    /\ exec = NoExec
    /\ firstReg = [n \in RegNames |->
                     IF n = "echo"
                     THEN [definition |-> EchoDefinition, handler |-> "echo"]
                     ELSE NoReg]
    /\ lastOp = [op |-> "constructor"]

RegisterTool(definition, handler) ==
    /\ toolRegistry' = registerTool(toolRegistry, definition, handler)
    /\ firstReg' = IF firstReg[definition.name] = NoReg
                   THEN [firstReg EXCEPT ![definition.name] =
                            [definition |-> definition, handler |-> handler]]
                   ELSE firstReg
    /\ lastOp' = [op |-> "registerTool", definition |-> definition,
                  handler |-> handler,
                  had |-> hasTool(toolRegistry, definition.name)]
    /\ UNCHANGED <<exec, loopVars>>
    /\ UNCHANGED extVars

UnregisterTool(name) ==
    /\ toolRegistry' = unregisterTool(toolRegistry, name)
    /\ firstReg' = [n \in RegNames |-> IF n = name THEN NoReg ELSE firstReg[n]]
    /\ lastOp' = [op |-> "unregisterTool", name |-> name,
                  ret |-> hasTool(toolRegistry, name)]
    /\ UNCHANGED <<exec, loopVars>>
    /\ UNCHANGED extVars

ValidateToolCall(toolCall) ==
    /\ lastOp' = [op |-> "validateToolCall", toolCall |-> toolCall,
                  ret |-> validateToolCall(toolRegistry, toolCall)]
    /\ UNCHANGED <<toolRegistry, exec, firstReg, loopVars>>
    /\ UNCHANGED extVars

\* executeTool is called: it returns at once for an unknown name, and
\* otherwise awaits the handler it looked up
ExecuteTool(toolCall) ==
    /\ exec = NoExec
    /\ LET s == executeToolStart(toolRegistry, toolCall)
       IN  IF s.kind = "awaiting"
           THEN /\ exec' = [kind |-> "awaiting", toolCall |-> toolCall,
                            handler |-> s.handler,
                            first |-> firstReg[toolCall.name],
                            names |-> getToolNames(toolRegistry)]
                /\ UNCHANGED lastOp
           ELSE /\ exec' = NoExec
                /\ lastOp' = [op |-> "executeTool", toolCall |-> toolCall,
                              names |-> getToolNames(toolRegistry),
                              ret |-> s]
    /\ UNCHANGED <<toolRegistry, firstReg, loopVars>>
    /\ UNCHANGED extVars

\* the handler's promise settles and executeTool returns
HandlerSettles(settled) ==
    /\ exec.kind = "awaiting"
    /\ settled \in HandlerSettlements(exec.handler, exec.toolCall)
    /\ lastOp' = [op |-> "executeTool", toolCall |-> exec.toolCall,
                  names |-> exec.names,
                  handler |-> exec.handler, settled |-> settled,
                  ret |-> executeToolSettle(settled)]
    /\ exec' = NoExec
    /\ UNCHANGED <<toolRegistry, firstReg, loopVars>>
    /\ UNCHANGED extVars

AllSettlements ==
    UNION { HandlerSettlements(h, c) : h \in RegHandlers \cup {"echo"},
                                      c \in ExecCalls }

ToolsNext ==
    \/ \E n \in RegNames, d \in RegDescriptions, h \in RegHandlers :
            RegisterTool(ToolDef(n, d), h)
    \/ \E n \in RegNames \cup {"ghost"} : UnregisterTool(n)
    \/ \E c \in ValidateCalls : ValidateToolCall(c)
    \/ \E c \in ExecCalls : ExecuteTool(c)
    \/ \E s \in AllSettlements : HandlerSettles(s)

InitTools == ToolsInit /\ LoopIdle

SpecTools == InitTools /\ [][ToolsNext]_vars

---------------------------------------------------------------------------
(* Claims about the registry and the executor, under SpecTools *)

\* C8: for every registered handler and every call, when the handler throws
\* or rejects, executeTool resolves to a result with success = FALSE whose
\* message carries the fault's message; executeTool itself never rejects.
C8_HandlerFaultNeverEscapes ==
    (lastOp.op = "executeTool" /\ "settled" \in DOMAIN lastOp
        /\ lastOp.settled.kind = "reject")
    => /\ lastOp.ret.kind = "resolved"
       /\ lastOp.ret.result.success = FALSE
       /\ "error" \in DOMAIN lastOp.settled
            => lastOp.ret.result.message
                 = <<"Tool execution failed: ">> \o lastOp.settled.error.message

\* C9: registerTool is idempotent, the first registration wins: as long as a
\* name stays registered, the registry holds exactly one entry for it, and
\* the definition getRegisteredTools returns and the handler executeTool
\* invokes for it are those of the first registerTool call.
C9_RegisterFirstWins ==
    /\ \A n \in RegNames :
          /\ Cardinality({i \in 1..Len(toolRegistry) : toolRegistry[i].key = n}) <= 1
          /\ firstReg[n] # NoReg
               => /\ hasTool(toolRegistry, n)
                  /\ RegistryGet(toolRegistry, n) = firstReg[n]
                  /\ Cardinality({i \in 1..Len(toolRegistry) :
                        getRegisteredTools(toolRegistry)[i].name = n}) = 1
                  /\ \E i \in 1..Len(toolRegistry) :
                        getRegisteredTools(toolRegistry)[i] = firstReg[n].definition
    /\ exec.kind = "awaiting" => exec.handler = exec.first.handler

\* a name has just been registered a second time, with another handler and
\* another definition than the registered ones
C9_Witness ==
    /\ lastOp.op = "registerTool"
    /\ lastOp.had
    /\ hasTool(toolRegistry, lastOp.definition.name)
    /\ RegistryGet(toolRegistry, lastOp.definition.name).handler # lastOp.handler
    /\ RegistryGet(toolRegistry, lastOp.definition.name).definition
         # lastOp.definition

\* C10: validateToolCall returns valid = TRUE exactly when the call has a
\* non-empty name, has an argument mapping (the empty one counts) and the
\* name is registered; otherwise valid = FALSE with a non-empty errors list.
C10_ValidateIff ==
    lastOp.op = "validateToolCall"
    => LET c == lastOp.toolCall
           ok == /\ "name" \in DOMAIN c
                 /\ c.name # ""
                 /\ "args" \in DOMAIN c
                 /\ \E i \in 1..Len(toolRegistry) : toolRegistry[i].key = c.name
       IN  /\ lastOp.ret.valid <=> ok
           /\ ~lastOp.ret.valid => lastOp.ret.errors # << >>

\* a call with the empty argument mapping and a registered name was found valid
C10_Witness ==
    /\ lastOp.op = "validateToolCall"
    /\ "args" \in DOMAIN lastOp.toolCall
    /\ lastOp.toolCall.args = {}
    /\ lastOp.ret.valid

---------------------------------------------------------------------------
(* Session store: SessionCacheService *)

SessionId == "s1"

\* an existing session is touched, whatever its age
getOrCreateSession(store, sessionId, provider) ==
    IF sessionId \in DOMAIN store
    THEN [store EXCEPT ![sessionId].lastActivityAt = now]
    ELSE [id \in DOMAIN store \cup {sessionId} |->
            IF id = sessionId
            THEN [sessionId |-> sessionId, nativeHistory |-> << >>,
                  provider |-> provider, createdAt |-> now,
                  lastActivityAt |-> now]
            ELSE store[id]]

updateHistoryKeepsFirst(store, sessionId, history) ==
    IF sessionId \in DOMAIN store
    THEN [store EXCEPT ![sessionId].nativeHistory =
                          IF Len(history) > MAX_HISTORY_LENGTH
                          THEN SubSeq(history, 1, MAX_HISTORY_LENGTH)
                          ELSE history,
                       ![sessionId].lastActivityAt = now]
    ELSE store

updateHistoryEverySession(store, sessionId, history) ==
    IF sessionId \in DOMAIN store
    THEN [id \in DOMAIN store |->
            [store[id] EXCEPT !.nativeHistory =
                                 IF Len(history) > MAX_HISTORY_LENGTH
                                 THEN SliceLast(history, MAX_HISTORY_LENGTH)
                                 ELSE history,
                              !.lastActivityAt = now]]
    ELSE store

\* nothing happens when the session is absent; a transcript longer than the
\* cap is cut to its last MAX_HISTORY_LENGTH entries
updateHistory(store, sessionId, history) ==
    IF sessionId \in DOMAIN store
    THEN [store EXCEPT ![sessionId].nativeHistory =
                          IF Len(history) > MAX_HISTORY_LENGTH
                          THEN SliceLast(history, MAX_HISTORY_LENGTH)
                          ELSE history,
                       ![sessionId].lastActivityAt = now]
    ELSE store

\* session.nativeHistory = nativeHistory stores the caller's array itself,
\* unless slice() made a new one
StoresCallersArray(store, sessionId, history) ==
    sessionId \in DOMAIN store /\ Len(history) <= MAX_HISTORY_LENGTH

deleteSession(store, sessionId) ==
    [id \in DOMAIN store \ {sessionId} |-> store[id]]

\* the store after the loop changed its array in place
InPlace(store, isShared, history) ==
    IF isShared /\ SessionId \in DOMAIN store
    THEN [store EXCEPT ![SessionId].nativeHistory = history]
    ELSE store

---------------------------------------------------------------------------
(* The two loops: ChatService.processMessage / runLLMLoop and              *)
(* OrchestratorService.processMessage / runLLMLoopNative                   *)

MaxDepthOf(service) == IF service = "chat" THEN ChatMAX_DEPTH ELSE OrchMAX_DEPTH

DepthExceededNever(service, d) == FALSE

DepthExceededLate(service, d) == d > MaxDepthOf(service)

\* if (depth >= MAX_DEPTH)
DepthExceeded(service, d) == d >= MaxDepthOf(service)

CannedResponse(service) ==
    [text |-> IF service = "chat"
              THEN "Too many tool calls. Please try again."
              ELSE "I apologize, but I encountered too many tool calls. Please try again.",
     toolCalls |-> << >>,
     usage |-> ZeroUsage]

\* the registry once ChatService.onModuleInit has run
BuiltInRegistry ==
    registerTool(ConstructedRegistry,
                 ToolDef("transfer_money", "Transfer money between accounts"),
                 "transfer_money")

(* What the vendor may answer *)

GeminiReply(parts) ==
    [candidates |-> <<[content |-> [role |-> "model", parts |-> parts]]>>,
     usageMetadata |-> [promptTokenCount |-> 7, candidatesTokenCount |-> 3,
                        totalTokenCount |-> 10]]

FunctionCallPart(name, args) == [functionCall |-> [name |-> name, args |-> args]]

GeminiTextReplies ==
    { GeminiReply(<<[text |-> "final"]>>),
      GeminiReply(<<[text |-> ""]>>),
      [candidates |-> <<[content |-> [role |-> "model", parts |-> << >>]]>>] }

GeminiEchoReply == GeminiReply(<<FunctionCallPart("echo", {<<"message", "hi">>})>>)

GeminiTwoEchoReply ==
    GeminiReply(<<FunctionCallPart("echo", {<<"message", "hi">>}),
                  FunctionCallPart("echo", {<<"message", "bye">>})>>)

GeminiToolReplies ==
    { GeminiEchoReply,
      GeminiReply(<<FunctionCallPart("ghost", {})>>),
      GeminiTwoEchoReply,
      GeminiReply(<<[text |-> "checking"],
                    FunctionCallPart("transfer_money", {<<"isConfirmed", "false">>}),
                    FunctionCallPart("ghost", {})>>),
      GeminiReply(<<FunctionCallPart("transfer_money", {<<"isConfirmed", "true">>})>>) }

\* the vendor assigns a fresh id to every call
CallId(n, i) == "call_" \o ToString(n) \o "_" \o ToString(i)

OpenAIReply(message) ==
    [choices |-> <<[message |-> message]>>,
     usage |-> [prompt_tokens |-> 7, completion_tokens |-> 3, total_tokens |-> 10]]

OpenAICall(id, name, arguments) ==
    [id |-> id, type |-> "function",
     function |-> [name |-> name, arguments |-> arguments]]

OpenAIToolMessage(calls) ==
    [role |-> "assistant", content |-> Null, tool_calls |-> calls]

OpenAITextReplies ==
    { OpenAIReply([role |-> "assistant", content |-> "final"]),
      [choices |-> <<[message |-> [role |-> "assistant", content |-> Null]]>>] }

OpenAIEchoReply(n) ==
    OpenAIReply(OpenAIToolMessage(
        <<OpenAICall(CallId(n, 1), "echo", JSONstringify({<<"message", "hi">>}))>>))

OpenAIToolReplies(n) ==
    { OpenAIEchoReply(n),
      OpenAIReply(OpenAIToolMessage(
        <<OpenAICall(CallId(n, 1), "ghost", JSONstringify({}))>>)),
      OpenAIReply(OpenAIToolMessage(
        <<OpenAICall(CallId(n, 1), "echo", JSONstringify({<<"message", "hi">>})),
          OpenAICall(CallId(n, 2), "echo", JSONstringify({<<"message", "bye">>}))>>)),
      OpenAIReply(OpenAIToolMessage(
        <<OpenAICall(CallId(n, 1), "transfer_money",
                     JSONstringify({<<"isConfirmed", "true">>})),
          OpenAICall(CallId(n, 2), "echo", [text |-> "{\"message\": "])>>)) }

\* the replies the vendor may give to the n-th invocation of the request:
\* a "runaway" model asks for the same tool again and again, once or twice
\* in its first reply and once in every later one, a "free" model
\* answers anything during the first MaxVaried invocations, a "brief" model
\* asks for one tool, known or unknown, in its first reply at most
VendorReplies(provider, behaviour, n) ==
    IF provider = "gemini"
    THEN GeminiTextReplies
         \cup (IF behaviour = "runaway"
               THEN (IF n <= 1 THEN {GeminiEchoReply, GeminiTwoEchoReply}
                     ELSE {GeminiEchoReply})
               ELSE IF behaviour = "brief"
               THEN (IF n <= 1
                     THEN {GeminiEchoReply,
                           GeminiReply(<<FunctionCallPart("ghost", {})>>)}
                     ELSE {})
               ELSE IF n <= MaxVaried THEN GeminiToolReplies ELSE {})
    ELSE OpenAITextReplies
         \cup (IF behaviour = "runaway" THEN {OpenAIEchoReply(n)}
               ELSE IF behaviour = "brief"
               THEN (IF n <= 1
                     THEN {OpenAIEchoReply(n),
                           OpenAIReply(OpenAIToolMessage(
                               <<OpenAICall(CallId(n, 1), "ghost",
                                            JSONstringify({}))>>))}
                     ELSE {})
               ELSE IF n <= MaxVaried THEN OpenAIToolReplies(n) ELSE {})

VendorErrors == { [message |-> <<"fetch failed">>],
                  [message |-> <<"401 Unauthorized">>] }

\* null, where an object may stand
NullObject == [null |-> TRUE]

IsToolMessage(m) == m.role = "tool"

\* the lastToolResult ChatService.processMessage adds to the response: the
\* last tool message among the last 10 entries of the transcript
lastToolResult(provider, history) ==
    LET agnostic == toAgnosticFormat(provider, SliceLast(history, 10)).messages
        tools == SelectSeq(agnostic, IsToolMessage)
    IN  IF tools = << >> \/ "toolResult" \notin DOMAIN tools[Len(tools)]
        THEN NullObject
        ELSE LET last == tools[Len(tools)].toolResult
             IN  IF "result" \in DOMAIN last
                 THEN [functionName |-> last.callId, data |-> last.result]
                 ELSE [functionName |-> last.callId]

\* what processMessage resolves with, given what the loop returned
Resolved(service, provider, history, r) ==
    IF service = "chat"
    THEN [kind |-> "resolved", response |-> r,
          lastToolResult |-> lastToolResult(provider, history)]
    ELSE [kind |-> "resolved", response |-> r]

\* if (response.text)
Truthy(text) == text # Null /\ text # ""

UserMessages == {"how much do I have?"}

\* the messageHistory argument of OrchestratorService.processMessage
MessageHistories ==
    { << >>,
      <<[role |-> "user", content |-> "hi"],
        [role |-> "assistant", content |-> "hello"]>> }

\* what the store may hold when a request arrives
PriorStores ==
    { << >>,
      [id \in {SessionId} |->
         [sessionId |-> SessionId,
          nativeHistory |-> <<[role |-> "user", parts |-> <<[text |-> "hi"]>>],
                              [role |-> "model", parts |-> <<[text |-> "hello"]>>]>>,
          provider |-> "gemini", createdAt |-> 0, lastActivityAt |-> 0]] }

\* the call of executeTool the loop awaits
StartExec(toolCall) ==
    LET s == executeToolStart(toolRegistry, toolCall)
    IN  IF s.kind = "awaiting"
        THEN [kind |-> "awaiting", toolCall |-> toolCall, handler |-> s.handler]
        ELSE IF s.kind = "resolved"
        THEN [kind |-> "resolved", toolCall |-> toolCall, result |-> s.result]
        ELSE [kind |-> "rejected", toolCall |-> toolCall, error |-> s.error]

StoreAtStartAliased(store, sessionId, history) ==
    [store EXCEPT ![sessionId].nativeHistory = history]

\* the store after processMessage built the request's transcript:
\* [...session.nativeHistory] and addUserMessage make new arrays, the array
\* the session holds is not touched
StoreAtStart(store, sessionId, history) == store

\* ChatService.processMessage up to the first model invocation
ChatProcessMessage(message, behaviour) ==
    /\ pc = "idle"
    /\ LET store == getOrCreateSession(sessions, SessionId, DefaultProvider)
           session == store[SessionId]
           history == addUserMessage(session.provider, session.nativeHistory, message)
       IN  /\ sessions' = StoreAtStart(store, SessionId, history)
           /\ historyManager' = session.provider
           /\ nativeHistory' = history
           /\ userTurn' = Len(history)
    /\ shared' = FALSE
    /\ svc' = "chat"
    /\ providerName' = DefaultProvider
    /\ model' = behaviour
    /\ depth' = 0
    /\ invocations' = 1
    /\ pc' = "awaitModel"
    /\ UNCHANGED <<toolVars, response, idx, outcome, roundStart, started>>
    /\ UNCHANGED extVars

\* OrchestratorService.processMessage up to the first model invocation
OrchProcessMessage(provider, messageHistory, message, behaviour) ==
    /\ pc = "idle"
    /\ LET history == addUserMessage(provider,
                                     toProviderFormat(provider, messageHistory),
                                     message)
       IN  /\ nativeHistory' = history
           /\ userTurn' = Len(history)
    /\ svc' = "orch"
    /\ providerName' = provider
    /\ historyManager' = provider
    /\ model' = behaviour
    /\ depth' = 0
    /\ invocations' = 1
    /\ pc' = "awaitModel"
    /\ UNCHANGED <<toolVars, sessions, shared, response, idx, outcome,
                   roundStart, started>>
    /\ UNCHANGED extVars

\* the model invocation fails: the vendor call throws, or the adapter throws
\* while it normalises the reply; the loop and processMessage pass it on
ModelFailureSwallowed(error) ==
    /\ pc' = "done"
    /\ outcome' = [kind |-> "resolved", response |-> CannedResponse(svc)]

ModelFailure(error) ==
    /\ pc' = "failed"
    /\ outcome' = [kind |-> "rejected", at |-> "model", error |-> error]

ModelFails(vendorError) ==
    /\ pc = "awaitModel"
    /\ vendorError \in VendorErrors
    /\ ModelFailure(ProviderError(providerName, vendorError))
    /\ lastOp' = [op |-> "generateWithNativeHistory",
                  threw |-> ProviderError(providerName, vendorError)]
    /\ UNCHANGED <<toolRegistry, exec, firstReg, sessions, shared, svc, model,
                   providerName, historyManager, nativeHistory, depth, response,
                   idx, invocations, roundStart, started, userTurn>>
    /\ UNCHANGED extVars

ModelReplyUnparsable(reply) ==
    /\ pc = "awaitModel"
    /\ reply \in VendorReplies(providerName, model, invocations)
    /\ ~Normalize(providerName, reply).ok
    /\ ModelFailure(Normalize(providerName, reply).error)
    /\ lastOp' = [op |-> "generateWithNativeHistory",
                  threw |-> Normalize(providerName, reply).error]
    /\ UNCHANGED <<toolRegistry, exec, firstReg, sessions, shared, svc, model,
                   providerName, historyManager, nativeHistory, depth, response,
                   idx, invocations, roundStart, started, userTurn>>
    /\ UNCHANGED extVars

\* the model answers without tool calls: the loop returns the response
ModelRepliesText(reply) ==
    /\ pc = "awaitModel"
    /\ reply \in VendorReplies(providerName, model, invocations)
    /\ Normalize(providerName, reply).ok
    /\ LET r == Normalize(providerName, reply).response
           history == IF svc = "chat" /\ Truthy(r.text)
                      THEN nativeHistory
                           \o SliceLast(addAssistantMessage(historyManager, << >>, r.text), 1)
                      ELSE nativeHistory
           pushed == InPlace(sessions, shared, history)
       IN  /\ Len(r.toolCalls) = 0
           /\ response' = r
           /\ nativeHistory' = history
           /\ IF svc = "chat"
              THEN /\ sessions' = updateHistory(
                                     updateHistory(pushed, SessionId, history),
                                     SessionId, history)
                   /\ shared' = StoresCallersArray(pushed, SessionId, history)
              ELSE UNCHANGED <<sessions, shared>>
           /\ outcome' = Resolved(svc, historyManager, history, r)
    /\ pc' = "done"
    /\ UNCHANGED <<toolVars, svc, model, providerName, historyManager, depth,
                   idx, invocations, roundStart, started, userTurn>>
    /\ UNCHANGED extVars

\* the model asks for tools: the tool-call turn is appended and the first
\* tool is called
ModelRequestsTools(reply) ==
    /\ pc = "awaitModel"
    /\ reply \in VendorReplies(providerName, model, invocations)
    /\ Normalize(providerName, reply).ok
    /\ LET r == Normalize(providerName, reply).response
           history == addAssistantToolCalls(historyManager, nativeHistory,
                                            r.toolCalls, r.rawResponse)
       IN  /\ Len(r.toolCalls) > 0
           /\ response' = r
           /\ nativeHistory' = history
           /\ roundStart' = Len(history)
           /\ sessions' = IF svc = "chat" THEN InPlace(sessions, shared, history)
                          ELSE sessions
           /\ exec' = StartExec(r.toolCalls[1])
    /\ idx' = 1
    /\ started' = 1
    /\ pc' = "awaitTool"
    /\ UNCHANGED <<toolRegistry, firstReg, lastOp, shared, svc, model,
                   providerName, historyManager, depth, outcome, invocations,
                   userTurn>>
    /\ UNCHANGED extVars

\* the loop goes on after executeTool settled as r: a rejection ends the
\* request; a result is appended, and then either the next tool is called
\* or the round is complete: ChatService persists it, and the loop is
\* entered again one level deeper
LoopResumes(r) ==
    IF r.kind = "rejected"
    THEN /\ pc' = "failed"
         /\ outcome' = [kind |-> "rejected", at |-> "tool", error |-> r.error]
         /\ exec' = NoExec
         /\ UNCHANGED <<sessions, shared, nativeHistory, depth, idx,
                        invocations, started>>
    ELSE LET calls == response.toolCalls
             history == addToolResults(historyManager, nativeHistory,
                                       calls[idx], r.result)
             pushed == IF svc = "chat" THEN InPlace(sessions, shared, history)
                       ELSE sessions
         IN  /\ nativeHistory' = history
             /\ IF idx < Len(calls)
                THEN /\ exec' = StartExec(calls[idx + 1])
                     /\ idx' = idx + 1
                     /\ started' = started + 1
                     /\ sessions' = pushed
                     /\ UNCHANGED <<shared, pc, depth, invocations, outcome>>
                ELSE /\ exec' = NoExec
                     /\ IF svc = "chat"
                        THEN /\ sessions' =
                                  IF DepthExceeded(svc, depth + 1)
                                  THEN updateHistory(
                                         updateHistory(pushed, SessionId, history),
                                         SessionId, history)
                                  ELSE updateHistory(pushed, SessionId, history)
                             /\ shared' = StoresCallersArray(pushed, SessionId, history)
                        ELSE UNCHANGED <<sessions, shared>>
                     /\ depth' = depth + 1
                     /\ IF DepthExceeded(svc, depth + 1)
                        THEN /\ pc' = "done"
                             /\ outcome' = Resolved(svc, historyManager, history,
                                                    CannedResponse(svc))
                             /\ UNCHANGED invocations
                        ELSE /\ pc' = "awaitModel"
                             /\ invocations' = invocations + 1
                             /\ UNCHANGED outcome
                     /\ UNCHANGED <<idx, started>>

\* the handler's promise settles, executeTool returns, the loop resumes
HandlerReturns(settled) ==
    /\ pc = "awaitTool"
    /\ exec.kind = "awaiting"
    /\ settled \in HandlerSettlements(exec.handler, exec.toolCall)
    /\ LoopResumes(executeToolSettle(settled))
    /\ UNCHANGED <<toolRegistry, firstReg, lastOp, svc, model, providerName,
                   historyManager, response, roundStart, userTurn>>
    /\ UNCHANGED extVars

\* executeTool returned without calling a handler (unknown tool): the loop
\* resumes with what it returned
ExecuteToolReturns ==
    /\ pc = "awaitTool"
    /\ exec.kind # "awaiting"
    /\ LoopResumes(exec)
    /\ UNCHANGED <<toolRegistry, firstReg, lastOp, svc, model, providerName,
                   historyManager, response, roundStart, userTurn>>
    /\ UNCHANGED extVars

\* SessionCacheService.deleteSession, called by another request at any time
DeleteSession(sessionId) ==
    /\ sessionId \in DOMAIN sessions
    /\ sessions' = deleteSession(sessions, sessionId)
    /\ shared' = FALSE
    /\ UNCHANGED <<toolVars, svc, model, pc, providerName, historyManager,
                   nativeHistory, depth, response, idx, outcome, invocations,
                   roundStart, started, userTurn>>
    /\ UNCHANGED extVars

LoopSettlements ==
    UNION { HandlerSettlements(h, [id |-> h, name |-> h, args |-> a]) :
              h \in {"echo", "transfer_money"},
              a \in { {<<"message", "hi">>}, {<<"message", "bye">>},
                      {<<"isConfirmed", "false">>},
                      {<<"isConfirmed", "true">>} } }

AllVendorReplies ==
    GeminiTextReplies \cup GeminiToolReplies \cup OpenAITextReplies
    \cup UNION { OpenAIToolReplies(n) : n \in 1..(MaxVaried + 1) }
    \cup { OpenAIEchoReply(n) : n \in 1..OrchMAX_DEPTH }

Init ==
    /\ toolRegistry = BuiltInRegistry
    /\ exec = NoExec
    /\ firstReg = [n \in RegNames |->
                     IF n = "echo"
                     THEN [definition |-> EchoDefinition, handler |-> "echo"]
                     ELSE NoReg]
    /\ lastOp = [op |-> "onModuleInit"]
    /\ sessions \in PriorStores
    /\ shared = FALSE
    /\ svc = "none"
    /\ model = "none"
    /\ pc = "idle"
    /\ providerName = "none"
    /\ historyManager = "none"
    /\ nativeHistory = << >>
    /\ depth = 0
    /\ response = NoResponse
    /\ idx = 0
    /\ outcome = NoOutcome
    /\ invocations = 0
    /\ roundStart = 0
    /\ started = 0
    /\ userTurn = 0
    /\ now = 0
    /\ touched = << >>
    /\ requests = << >>
    /\ owner = << >>
    /\ alone = << >>
    /\ inputMessages = << >>
    /\ arrays = << >>
    /\ call = [op |-> "none"]
    /\ CfgIdle

Next ==
    \/ \E m \in UserMessages, b \in {"free", "runaway"} : ChatProcessMessage(m, b)
    \/ \E p \in {"gemini", "openai"}, mh \in MessageHistories,
          m \in UserMessages, b \in {"free", "runaway"} :
            OrchProcessMessage(p, mh, m, b)
    \/ \E e \in VendorErrors : ModelFails(e)
    \/ \E reply \in AllVendorReplies : ModelReplyUnparsable(reply)
    \/ \E reply \in AllVendorReplies : ModelRepliesText(reply)
    \/ \E reply \in AllVendorReplies : ModelRequestsTools(reply)
    \/ \E settled \in LoopSettlements : HandlerReturns(settled)
    \/ ExecuteToolReturns
    \/ DeleteSession(SessionId)

Spec == Init /\ [][Next]_vars

\* the awaited promises settle: the vendor answers or fails, handlers return
Settle ==
    \/ \E e \in VendorErrors : ModelFails(e)
    \/ \E reply \in AllVendorReplies : ModelReplyUnparsable(reply)
    \/ \E reply \in AllVendorReplies : ModelRepliesText(reply)
    \/ \E reply \in AllVendorReplies : ModelRequestsTools(reply)
    \/ \E settled \in LoopSettlements : HandlerReturns(settled)
    \/ ExecuteToolReturns

LiveSpec == Init /\ [][Next]_vars /\ WF_vars(Settle)

---------------------------------------------------------------------------
(* Claims about the loops, under Spec and LiveSpec *)

\* a transcript entry that carries a tool result, in the loop's native format
IsToolResultEntry(e) ==
    IF ManagerOf(historyManager) = "gemini"
    THEN /\ "parts" \in DOMAIN e
         /\ Len(e.parts) > 0
         /\ "functionResponse" \in DOMAIN e.parts[1]
    ELSE e.role = "tool"

\* the key that joins a tool-result entry to its call
ResultKey(e) ==
    IF ManagerOf(historyManager) = "gemini"
    THEN e.parts[1].functionResponse.name
    ELSE e.tool_call_id

\* the payload a tool-result entry carries
ResultOf(e) ==
    IF ManagerOf(historyManager) = "gemini"
    THEN e.parts[1].functionResponse.response.result
    ELSE JSONparse(e.content).value

\* entry e is the result of call c
Answers(e, c) ==
    /\ IsToolResultEntry(e)
    /\ ResultKey(e) = IF ManagerOf(historyManager) = "gemini" THEN c.name ELSE c.id
    /\ c.name = "echo" => ResultOf(e) = [echoed |-> ArgGet(c.args, "message")]

\* a round is complete and the loop is about to ask the model again
AtNextInvocation == pc = "awaitModel" /\ invocations > 1

RoundCalls == response.toolCalls

\* seg occurs in seq as a run of consecutive entries
Contains(seq, seg) ==
    \E o \in 0..(Len(seq) - Len(seg)) :
        \A k \in 1..Len(seg) : seq[o + k] = seg[k]

\* C1: when the loop invokes the model again after a round that requested
\* tools, every call id of the round's tool-call turn is the key of exactly
\* one tool-result entry among the entries appended after that turn.
C1_EveryCallAnsweredOnce ==
    AtNextInvocation =>
        \A i \in 1..Len(RoundCalls) :
            Cardinality({ k \in (roundStart + 1)..Len(nativeHistory) :
                            /\ IsToolResultEntry(nativeHistory[k])
                            /\ ResultKey(nativeHistory[k]) = RoundCalls[i].id }) = 1

\* C2: when the model's N-th reply has an empty tool-call list, the request
\* is over, processMessage resolves with exactly that response, and N model
\* invocations were made, N being at most the ceiling of the service.
C2_TextReplyEndsLoop ==
    (pc = "done" /\ Len(response.toolCalls) = 0) =>
        /\ outcome.kind = "resolved"
        /\ outcome.response = response
        /\ outcome.response.text = response.text
        /\ invocations = depth + 1
        /\ invocations <= MaxDepthOf(svc)

C2_Witness ==
    /\ pc = "done"
    /\ svc = "chat"
    /\ Len(response.toolCalls) = 0
    /\ response.text = "final"
    /\ invocations = ChatMAX_DEPTH

C3_State ==
    (svc # "none" /\ Len(response.toolCalls) > 0
       /\ ~(outcome.kind = "rejected" /\ outcome.at = "model")) =>
        /\ pc # "failed"
        /\ invocations <= MaxDepthOf(svc)
        /\ pc = "done" =>
              /\ invocations = MaxDepthOf(svc)
              /\ outcome.kind = "resolved"
              /\ outcome.response.text = CannedResponse(svc).text
              /\ outcome.response.toolCalls = << >>
              /\ outcome.response.usage = ZeroUsage

\* C3: as long as every reply of the model requested tools, the request has
\* not failed and has made at most ceiling invocations; when it is over it
\* has made exactly ceiling invocations and resolved with the canned apology,
\* an empty toolCalls list and all-zero usage; and every request that was
\* started is eventually over.
C3_RunawayStopsAtCeiling ==
    /\ []C3_State
    /\ (pc \in {"awaitModel", "awaitTool"}) ~> (pc \in {"done", "failed"})

C3_Witness ==
    /\ pc = "done"
    /\ svc = "chat"
    /\ Len(response.toolCalls) > 0
    /\ invocations = ChatMAX_DEPTH
    /\ outcome.response = CannedResponse("chat")

C4_State ==
    /\ pc = "awaitTool" =>
          /\ invocations = depth + 1
          /\ started = idx
          /\ Len(nativeHistory) = roundStart + idx - 1
          /\ \A j \in 1..(idx - 1) :
                Answers(nativeHistory[roundStart + j], RoundCalls[j])
    /\ AtNextInvocation =>
          /\ invocations = depth + 1
          /\ Len(nativeHistory) = roundStart + Len(RoundCalls)
          /\ \A j \in 1..Len(RoundCalls) :
                Answers(nativeHistory[roundStart + j], RoundCalls[j])

C4_Step ==
    pc = "awaitTool" =>
        /\ started' # started =>
              /\ started' = started + 1
              /\ Len(nativeHistory') = roundStart + started
        /\ invocations' # invocations =>
              /\ invocations' = invocations + 1
              /\ Len(nativeHistory') = roundStart + Len(RoundCalls)
              /\ started = Len(RoundCalls)

\* C4: within a round the i-th tool is called only once the results of the
\* i-1 tools before it are in the transcript, the results stand in the
\* transcript in the order of the calls, and the model is invoked again only
\* when the last result is appended (one model request per round).
C4_ToolsRunOneByOneInOrder == []C4_State /\ [][C4_Step]_vars

C4_Witness ==
    /\ pc = "awaitTool"
    /\ idx = 2
    /\ exec.kind = "awaiting"
    /\ RoundCalls[1].name = RoundCalls[2].name

C5_Step ==
    /\ (svc = "chat" /\ invocations >= 1 /\ invocations' = invocations + 1) =>
          /\ SessionId \in DOMAIN sessions'
          /\ Contains(sessions'[SessionId].nativeHistory,
                      SubSeq(nativeHistory', userTurn, Len(nativeHistory')))
    /\ (svc = "chat" /\ invocations > 1 /\ pc = "awaitModel" /\ pc' = "failed"
          /\ SessionId \in DOMAIN sessions) =>
          Contains(sessions'[SessionId].nativeHistory,
                   SubSeq(nativeHistory', userTurn, Len(nativeHistory')))

\* C5: in ChatService, at the moment the model is invoked again after a
\* completed round, the transcript stored for the session contains the user
\* turn and every entry of the rounds completed so far; and when that
\* invocation fails, the transcript the store holds for the session still
\* contains them.
C5_CompletedRoundsAreStored == [][C5_Step]_vars

C6_State ==
    lastOp.op = "generateWithNativeHistory" =>
        /\ pc = "failed"
        /\ outcome = [kind |-> "rejected", at |-> "model", error |-> lastOp.threw]

C6_Step ==
    pc = "failed" =>
        /\ pc' = "failed"
        /\ outcome' = outcome
        /\ invocations' = invocations
        /\ started' = started
        /\ exec' = exec
        /\ nativeHistory' = nativeHistory

\* C6: when a model invocation fails, processMessage rejects with that very
\* failure, and from then on the request invokes the model no more and
\* calls no tool.
C6_ModelFailureEndsRequest == []C6_State /\ [][C6_Step]_vars

C6_Witness ==
    /\ pc = "failed"
    /\ outcome.at = "model"
    /\ invocations > 1
    /\ lastOp.threw.message = <<"Failed to connect to Gemini API: ", "fetch failed">>

UnknownCalls == { j \in 1..Len(RoundCalls) : ~hasTool(toolRegistry, RoundCalls[j].name) }

C7_State ==
    /\ outcome.kind = "rejected" => outcome.at = "model"
    /\ (pc = "awaitTool" /\ idx \in UnknownCalls) => exec.kind = "resolved"
    /\ \A j \in UnknownCalls :
          (roundStart > 0 /\ Len(nativeHistory) >= roundStart + j) =>
              LET e == nativeHistory[roundStart + j]
              IN  /\ Answers(e, RoundCalls[j])
                  /\ ResultOf(e).success = FALSE
                  /\ SubSeq(ResultOf(e).message, 1, 2)
                        = <<"Unknown tool: ", RoundCalls[j].name>>
                  /\ \A i \in 1..Len(toolRegistry) :
                        \E k \in 3..Len(ResultOf(e).message) :
                            ResultOf(e).message[k] = toolRegistry[i].key

C7_Step ==
    (pc = "awaitTool" /\ idx \in UnknownCalls /\ pc' # pc) =>
        /\ pc' \in {"awaitModel", "done"}
        /\ Len(nativeHistory') = Len(nativeHistory) + 1

\* C7: executeTool answers a call of an unregistered tool with a result, not
\* a throw: success is false and the message names every registered tool;
\* the loop appends it as the result of the call and goes on to the next
\* tool or the next model invocation, and the request does not fail.
C7_UnknownToolIsAnswered == []C7_State /\ [][C7_Step]_vars

C7_Witness ==
    /\ AtNextInvocation
    /\ UnknownCalls # {}

---------------------------------------------------------------------------
(* The session store under a clock: SessionCacheService with its TTL       *)

\* getSession: the store it leaves and what it returns
getSessionExpiresAtTTL(store, sessionId) ==
    IF sessionId \in DOMAIN store
    THEN IF now - store[sessionId].lastActivityAt >= TTL_MS
         THEN [store |-> deleteSession(store, sessionId), ret |-> NullObject]
         ELSE LET touchedStore == [store EXCEPT ![sessionId].lastActivityAt = now]
              IN  [store |-> touchedStore, ret |-> touchedStore[sessionId]]
    ELSE [store |-> store, ret |-> NullObject]

getSession(store, sessionId) ==
    IF sessionId \in DOMAIN store
    THEN IF now - store[sessionId].lastActivityAt > TTL_MS
         THEN [store |-> deleteSession(store, sessionId), ret |-> NullObject]
         ELSE LET touchedStore == [store EXCEPT ![sessionId].lastActivityAt = now]
              IN  [store |-> touchedStore, ret |-> touchedStore[sessionId]]
    ELSE [store |-> store, ret |-> NullObject]

cleanupExpiredSessions(store) ==
    [id \in { i \in DOMAIN store : ~(now - store[i].lastActivityAt > TTL_MS) } |->
        store[id]]

clearAllSessions(store) == << >>

StoreIds == {"s1", "s2"}

\* a transcript of n entries that are told apart by their position
History(n) ==
    [i \in 1..n |-> [role |-> "user", parts |-> <<[text |-> ToString(i)]>>]]

HistoryLengths ==
    {0, 1, MAX_HISTORY_LENGTH}
    \cup { MAX_HISTORY_LENGTH + k : k \in 1..MaxOver }

\* the session is used at the present time
Touch(sessionId) ==
    [id \in DOMAIN touched \cup {sessionId} |->
        IF id = sessionId THEN now ELSE touched[id]]

GetOrCreateSession(sessionId, provider) ==
    /\ sessions' = getOrCreateSession(sessions, sessionId, provider)
    /\ touched' = Touch(sessionId)
    /\ lastOp' = [op |-> "getOrCreateSession", sessionId |-> sessionId,
                  before |-> sessions, ret |-> sessions'[sessionId]]
    /\ UNCHANGED <<toolRegistry, exec, firstReg, shared, svc, model, pc,
                   providerName, historyManager, nativeHistory, depth, response,
                   idx, outcome, invocations, roundStart, started, userTurn,
                   now, requests, owner, alone, adapterVars, cfgVars>>

GetSession(sessionId) ==
    /\ sessions' = getSession(sessions, sessionId).store
    /\ touched' = IF sessionId \in DOMAIN sessions'
                  THEN Touch(sessionId) ELSE touched
    /\ lastOp' = [op |-> "getSession", sessionId |-> sessionId,
                  before |-> sessions,
                  ret |-> getSession(sessions, sessionId).ret]
    /\ UNCHANGED <<toolRegistry, exec, firstReg, shared, svc, model, pc,
                   providerName, historyManager, nativeHistory, depth, response,
                   idx, outcome, invocations, roundStart, started, userTurn,
                   now, requests, owner, alone, adapterVars, cfgVars>>

UpdateHistory(sessionId, history) ==
    /\ sessions' = updateHistory(sessions, sessionId, history)
    /\ touched' = IF sessionId \in DOMAIN sessions
                  THEN Touch(sessionId) ELSE touched
    /\ lastOp' = [op |-> "updateHistory", sessionId |-> sessionId,
                  existed |-> sessionId \in DOMAIN sessions,
                  length |-> Len(history)]
    /\ UNCHANGED <<toolRegistry, exec, firstReg, shared, svc, model, pc,
                   providerName, historyManager, nativeHistory, depth, response,
                   idx, outcome, invocations, roundStart, started, userTurn,
                   now, requests, owner, alone, adapterVars, cfgVars>>

StoreDeleteSession(sessionId) ==
    /\ sessions' = deleteSession(sessions, sessionId)
    /\ lastOp' = [op |-> "deleteSession", sessionId |-> sessionId,
                  ret |-> sessionId \in DOMAIN sessions]
    /\ UNCHANGED <<toolRegistry, exec, firstReg, shared, svc, model, pc,
                   providerName, historyManager, nativeHistory, depth, response,
                   idx, outcome, invocations, roundStart, started, userTurn,
                   now, touched, requests, owner, alone, adapterVars, cfgVars>>

ClearAllSessions ==
    /\ sessions' = clearAllSessions(sessions)
    /\ lastOp' = [op |-> "clearAllSessions"]
    /\ UNCHANGED <<toolRegistry, exec, firstReg, shared, svc, model, pc,
                   providerName, historyManager, nativeHistory, depth, response,
                   idx, outcome, invocations, roundStart, started, userTurn,
                   now, touched, requests, owner, alone, adapterVars, cfgVars>>

\* the interval timer fires
CleanupExpiredSessions ==
    /\ sessions' = cleanupExpiredSessions(sessions)
    /\ lastOp' = [op |-> "cleanupExpiredSessions", before |-> sessions]
    /\ UNCHANGED <<toolRegistry, exec, firstReg, shared, svc, model, pc,
                   providerName, historyManager, nativeHistory, depth, response,
                   idx, outcome, invocations, roundStart, started, userTurn,
                   now, touched, requests, owner, alone, adapterVars, cfgVars>>

\* time passes between two operations
Tick(d) ==
    /\ (now + d) \div TTL_MS <= MaxTicks
    /\ (now + d) % TTL_MS <= 1
    /\ now' = now + d
    /\ lastOp' = [op |-> "tick"]
    /\ UNCHANGED <<toolRegistry, exec, firstReg, sessions, shared, svc, model,
                   pc, providerName, historyManager, nativeHistory, depth,
                   response, idx, outcome, invocations, roundStart, started,
                   userTurn, touched, requests, owner, alone, adapterVars, cfgVars>>

StoreNext ==
    \/ \E id \in StoreIds : GetOrCreateSession(id, DefaultProvider)
    \/ \E id \in StoreIds : GetSession(id)
    \/ \E id \in StoreIds, n \in HistoryLengths : UpdateHistory(id, History(n))
    \/ \E id \in StoreIds : StoreDeleteSession(id)
    \/ ClearAllSessions
    \/ CleanupExpiredSessions
    \/ \E d \in {1, TTL_MS} : Tick(d)

InitStore == ToolsInit /\ LoopIdle

SpecStore == InitStore /\ [][StoreNext]_vars

(* Claims about the session store, under SpecStore *)

Age(session) == now - session.lastActivityAt

\* C11: getSession on a session whose last activity is more than TTL_MS in
\* the past reports it absent and removes it; on a session within TTL_MS it
\* returns the session with its last activity advanced to the present time;
\* the periodic sweep never removes a session used within the last TTL_MS.
C11_ExpiryAndTouch ==
    /\ lastOp.op = "getSession" /\ lastOp.sessionId \in DOMAIN lastOp.before
       => LET old == lastOp.before[lastOp.sessionId]
          IN  IF Age(old) > TTL_MS
              THEN /\ lastOp.ret = NullObject
                   /\ lastOp.sessionId \notin DOMAIN sessions
              ELSE /\ lastOp.ret = [old EXCEPT !.lastActivityAt = now]
                   /\ lastOp.sessionId \in DOMAIN sessions
                   /\ sessions[lastOp.sessionId] = lastOp.ret
    /\ lastOp.op = "cleanupExpiredSessions"
       => \A id \in DOMAIN lastOp.before :
            (id \in DOMAIN touched /\ now - touched[id] <= TTL_MS)
            => (id \in DOMAIN sessions /\ sessions[id] = lastOp.before[id])

\* getSession found a session of age exactly TTL_MS and returned it, and
\* the sweep that followed kept it
C11_Witness ==
    /\ lastOp.op = "cleanupExpiredSessions"
    /\ "s1" \in DOMAIN sessions
    /\ "s2" \notin DOMAIN sessions
    /\ "s2" \in DOMAIN lastOp.before
    /\ sessions["s1"].lastActivityAt = TTL_MS
    /\ sessions["s1"].createdAt = 0
    /\ now = TTL_MS + 1

\* C12: after updateHistory(sessionId, h) on an existing session, the stored
\* transcript is the last MAX_HISTORY_LENGTH entries of h in their order when
\* h is longer than MAX_HISTORY_LENGTH, and h itself otherwise.
C12_StoredIsCappedSuffix ==
    (lastOp.op = "updateHistory" /\ lastOp.existed)
    => LET h == History(lastOp.length)
           stored == sessions[lastOp.sessionId].nativeHistory
       IN  IF Len(h) > MAX_HISTORY_LENGTH
           THEN /\ Len(stored) = MAX_HISTORY_LENGTH
                /\ \A i \in 1..MAX_HISTORY_LENGTH :
                      stored[i] = h[Len(h) - MAX_HISTORY_LENGTH + i]
           ELSE stored = h

\* a transcript two entries over the cap was stored on an existing session
C12_Witness ==
    /\ lastOp.op = "updateHistory"
    /\ lastOp.existed
    /\ lastOp.length = MAX_HISTORY_LENGTH + 2
    /\ sessions[lastOp.sessionId].nativeHistory[1].parts[1].text = "3"

---------------------------------------------------------------------------
(* Claims about a session removed under a running request, under LiveSpec  *)

\* the step calls sessionCache.updateHistory: the request returns, or a
\* round is complete and the model is invoked again
Persists == pc' = "done" \/ invocations' # invocations

C13_Step ==
    (/\ svc = "chat"
     /\ pc \in {"awaitModel", "awaitTool"}
     /\ SessionId \notin DOMAIN sessions
     /\ Persists)
    => /\ SessionId \in DOMAIN sessions'
       /\ sessions'[SessionId].nativeHistory =
            IF Len(nativeHistory') > MAX_HISTORY_LENGTH
            THEN SliceLast(nativeHistory', MAX_HISTORY_LENGTH)
            ELSE nativeHistory'

---------------------------------------------------------------------------
(* ChatService requests that run side by side on the one session store     *)

RequestIds == {"r1", "r2"}

NoRequest ==
    [pc |-> "idle", sessionId |-> "none", history |-> << >>,
     response |-> NoResponse, idx |-> 0, depth |-> 0, exec |-> NoExec,
     outcome |-> NoOutcome]

InFlight(r) == requests[r].pc \in {"awaitModel", "awaitTool"}

\* the store after request r changed its array in place
PushedBy(store, r, sessionId, history) ==
    IF sessionId \in DOMAIN store /\ owner[sessionId] = r
    THEN [store EXCEPT ![sessionId].nativeHistory = history]
    ELSE store

\* whose array the store holds after request r called updateHistory
OwnerAfterUpdate(store, r, sessionId, history) ==
    IF sessionId \notin DOMAIN store THEN owner
    ELSE IF Len(history) <= MAX_HISTORY_LENGTH
    THEN [owner EXCEPT ![sessionId] = r]
    ELSE [owner EXCEPT ![sessionId] = "none"]

\* the store after the request of r returned a text reply: runLLMLoop and
\* then processMessage call updateHistory
StoreAfterText(store, r, sessionId, history) ==
    updateHistory(updateHistory(PushedBy(store, r, sessionId, history),
                                sessionId, history),
                  sessionId, history)

\* the store after a round of r is complete: runLLMLoop calls updateHistory,
\* and so does processMessage when the deeper call returns at once
StoreAfterRound(store, r, sessionId, history, nextDepth) ==
    IF DepthExceeded("chat", nextDepth)
    THEN updateHistory(updateHistory(PushedBy(store, r, sessionId, history),
                                     sessionId, history),
                       sessionId, history)
    ELSE updateHistory(PushedBy(store, r, sessionId, history), sessionId, history)

\* what the vendor may answer to request r: every reply carries the name of
\* the request it answers
RequestReplies(r) ==
    { GeminiReply(<<[text |-> "final for " \o r]>>),
      GeminiReply(<<[text |-> ""]>>),
      GeminiReply(<<FunctionCallPart("echo", {<<"message", r>>})>>),
      GeminiReply(<<FunctionCallPart("echo", {<<"message", r>>}),
                    FunctionCallPart("transfer_money", {<<"isConfirmed", "true">>})>>) }

RequestMessage(r) == "message of " \o r

RequestCalls ==
    { [id |-> "echo", name |-> "echo", args |-> {<<"message", r>>}] : r \in RequestIds }
    \cup {[id |-> "transfer_money", name |-> "transfer_money",
           args |-> {<<"isConfirmed", "true">>}]}

RequestSettlements ==
    UNION { HandlerSettlements(c.name, c) : c \in RequestCalls }

\* the call of executeTool request r awaits
RequestExec(toolCall) ==
    LET start == executeToolStart(BuiltInRegistry, toolCall)
    IN  [kind |-> "awaiting", toolCall |-> toolCall, handler |-> start.handler]

\* ChatService.processMessage up to the first model invocation
RequestStarts(r, sessionId) ==
    /\ requests[r].pc = "idle"
    /\ LET store == getOrCreateSession(sessions, sessionId, DefaultProvider)
           session == store[sessionId]
           history == addUserMessage(session.provider, session.nativeHistory,
                                     RequestMessage(r))
       IN  /\ sessions' = store
           /\ alone' = [alone EXCEPT ![sessionId] =
                          getOrCreateSession(alone[sessionId], sessionId,
                                             DefaultProvider)]
           /\ requests' = [requests EXCEPT ![r] =
                             [NoRequest EXCEPT !.pc = "awaitModel",
                                               !.sessionId = sessionId,
                                               !.history = history]]
    /\ owner' = IF sessionId \in DOMAIN sessions THEN owner
                ELSE [owner EXCEPT ![sessionId] = "none"]
    /\ UNCHANGED <<toolVars, shared, svc, model, pc, providerName,
                   historyManager, nativeHistory, depth, response, idx, outcome,
                   invocations, roundStart, started, userTurn, now, touched,
                   adapterVars, cfgVars>>

\* generateWithNativeHistory throws: the request ends with the error
RequestModelFails(r, vendorError) ==
    /\ requests[r].pc = "awaitModel"
    /\ requests' = [requests EXCEPT
                      ![r].pc = "failed",
                      ![r].outcome = [kind |-> "rejected", at |-> "model",
                                      error |-> ProviderError(DefaultProvider,
                                                              vendorError)]]
    /\ UNCHANGED <<toolVars, sessions, shared, svc, model, pc, providerName,
                   historyManager, nativeHistory, depth, response, idx, outcome,
                   invocations, roundStart, started, userTurn, now, touched,
                   owner, alone, adapterVars, cfgVars>>

\* the model answers request r without tool calls
RequestGetsText(r, reply) ==
    /\ requests[r].pc = "awaitModel"
    /\ reply \in RequestReplies(r)
    /\ LET req == requests[r]
           sid == req.sessionId
           res == Normalize(DefaultProvider, reply).response
           history == IF Truthy(res.text)
                      THEN req.history
                           \o SliceLast(addAssistantMessage(DefaultProvider, << >>,
                                                            res.text), 1)
                      ELSE req.history
       IN  /\ Len(res.toolCalls) = 0
           /\ sessions' = StoreAfterText(sessions, r, sid, history)
           /\ alone' = [alone EXCEPT ![sid] =
                          StoreAfterText(alone[sid], r, sid, history)]
           /\ owner' = OwnerAfterUpdate(sessions, r, sid, history)
           /\ requests' = [requests EXCEPT
                             ![r].pc = "done",
                             ![r].history = history,
                             ![r].response = res,
                             ![r].outcome = Resolved("chat", DefaultProvider,
                                                     history, res)]
    /\ UNCHANGED <<toolVars, shared, svc, model, pc, providerName,
                   historyManager, nativeHistory, depth, response, idx, outcome,
                   invocations, roundStart, started, userTurn, now, touched,
                   adapterVars, cfgVars>>

\* the model asks request r for tools: the tool-call turn is appended and
\* the first tool is called
RequestGetsToolCalls(r, reply) ==
    /\ requests[r].pc = "awaitModel"
    /\ requests[r].depth < MaxRounds
    /\ reply \in RequestReplies(r)
    /\ LET req == requests[r]
           sid == req.sessionId
           res == Normalize(DefaultProvider, reply).response
           history == addAssistantToolCalls(DefaultProvider, req.history,
                                            res.toolCalls, res.rawResponse)
       IN  /\ Len(res.toolCalls) > 0
           /\ sessions' = PushedBy(sessions, r, sid, history)
           /\ alone' = [alone EXCEPT ![sid] = PushedBy(alone[sid], r, sid, history)]
           /\ requests' = [requests EXCEPT
                             ![r].pc = "awaitTool",
                             ![r].history = history,
                             ![r].response = res,
                             ![r].idx = 1,
                             ![r].exec = RequestExec(res.toolCalls[1])]
    /\ UNCHANGED <<toolVars, shared, svc, model, pc, providerName,
                   historyManager, nativeHistory, depth, response, idx, outcome,
                   invocations, roundStart, started, userTurn, now, touched,
                   owner, adapterVars, cfgVars>>

\* the handler request r awaits returns: the result is appended, and then
\* the next tool is called, or the round is persisted and the model is
\* invoked again
RequestToolReturns(r, settled) ==
    /\ requests[r].pc = "awaitTool"
    /\ settled \in HandlerSettlements(requests[r].exec.handler,
                                      requests[r].exec.toolCall)
    /\ LET req == requests[r]
           sid == req.sessionId
           calls == req.response.toolCalls
           result == executeToolSettle(settled).result
           history == addToolResults(DefaultProvider, req.history,
                                     calls[req.idx], result)
       IN  IF req.idx < Len(calls)
           THEN /\ sessions' = PushedBy(sessions, r, sid, history)
                /\ alone' = [alone EXCEPT ![sid] =
                               PushedBy(alone[sid], r, sid, history)]
                /\ requests' = [requests EXCEPT
                                  ![r].history = history,
                                  ![r].idx = req.idx + 1,
                                  ![r].exec = RequestExec(calls[req.idx + 1])]
                /\ UNCHANGED owner
           ELSE /\ sessions' = StoreAfterRound(sessions, r, sid, history,
                                               req.depth + 1)
                /\ alone' = [alone EXCEPT ![sid] =
                               StoreAfterRound(alone[sid], r, sid, history,
                                               req.depth + 1)]
                /\ owner' = OwnerAfterUpdate(sessions, r, sid, history)
                /\ requests' = [requests EXCEPT
                                  ![r].history = history,
                                  ![r].exec = NoExec,
                                  ![r].depth = req.depth + 1,
                                  ![r].pc = IF DepthExceeded("chat", req.depth + 1)
                                            THEN "done" ELSE "awaitModel",
                                  ![r].outcome =
                                      IF DepthExceeded("chat", req.depth + 1)
                                      THEN Resolved("chat", DefaultProvider, history,
                                                    CannedResponse("chat"))
                                      ELSE req.outcome]
    /\ UNCHANGED <<toolVars, shared, svc, model, pc, providerName,
                   historyManager, nativeHistory, depth, response, idx, outcome,
                   invocations, roundStart, started, userTurn, now, touched,
                   adapterVars, cfgVars>>

RequestsNext ==
    \/ \E r \in RequestIds, id \in StoreIds : RequestStarts(r, id)
    \/ \E r \in RequestIds, e \in VendorErrors : RequestModelFails(r, e)
    \/ \E r \in RequestIds : \E reply \in RequestReplies(r) : RequestGetsText(r, reply)
    \/ \E r \in RequestIds : \E reply \in RequestReplies(r) :
            RequestGetsToolCalls(r, reply)
    \/ \E r \in RequestIds, settled \in RequestSettlements :
            RequestToolReturns(r, settled)

InitRequests ==
    /\ toolRegistry = BuiltInRegistry
    /\ exec = NoExec
    /\ firstReg = [n \in RegNames |->
                     IF n = "echo"
                     THEN [definition |-> EchoDefinition, handler |-> "echo"]
                     ELSE NoReg]
    /\ lastOp = [op |-> "onModuleInit"]
    /\ sessions = << >>
    /\ shared = FALSE
    /\ svc = "none"
    /\ model = "none"
    /\ pc = "idle"
    /\ providerName = "none"
    /\ historyManager = "none"
    /\ nativeHistory = << >>
    /\ depth = 0
    /\ response = NoResponse
    /\ idx = 0
    /\ outcome = NoOutcome
    /\ invocations = 0
    /\ roundStart = 0
    /\ started = 0
    /\ userTurn = 0
    /\ now = 0
    /\ touched = << >>
    /\ requests = [r \in RequestIds |-> NoRequest]
    /\ owner = [id \in StoreIds |-> "none"]
    /\ alone = [id \in StoreIds |-> << >>]
    /\ inputMessages = << >>
    /\ arrays = << >>
    /\ call = [op |-> "none"]
    /\ CfgIdle

SpecRequests == InitRequests /\ [][RequestsNext]_vars

(* Claims about requests side by side, under SpecRequests *)

\* the texts an entry of a Gemini transcript carries: its text parts, the
\* message arguments of its calls and the echoed messages of its results
EntryTexts(entry) ==
    { entry.parts[i].text :
        i \in { j \in 1..Len(entry.parts) : "text" \in DOMAIN entry.parts[j] } }
    \cup UNION { { kv[2] : kv \in { a \in entry.parts[i].functionCall.args :
                                      a[1] = "message" } } :
                 i \in { j \in 1..Len(entry.parts) :
                           "functionCall" \in DOMAIN entry.parts[j] } }
    \cup { entry.parts[i].functionResponse.response.result.echoed :
             i \in { j \in 1..Len(entry.parts) :
                       /\ "functionResponse" \in DOMAIN entry.parts[j]
                       /\ "echoed" \in DOMAIN
                             entry.parts[j].functionResponse.response.result } }

\* what the requests for a session id wrote
TextsFor(sessionId) ==
    UNION { {RequestMessage(r), "final for " \o r, r} :
              r \in { q \in RequestIds : requests[q].sessionId = sessionId } }

\* C14: for any interleaving of ChatService.processMessage requests on two
\* different session ids, the stored transcript of each session holds only
\* entries that requests for its own id produced, and it is the transcript
\* the session would have had the requests for the other id not run.
C14_SessionsAreIsolated ==
    \A id \in StoreIds :
        /\ id \in DOMAIN sessions <=> id \in DOMAIN alone[id]
        /\ id \in DOMAIN sessions
           => /\ sessions[id] = alone[id][id]
              /\ \A i \in 1..Len(sessions[id].nativeHistory) :
                    EntryTexts(sessions[id].nativeHistory[i]) \subseteq TextsFor(id)

\* two requests on different ids ran interleaved, each through a round of
\* tool calls, and both transcripts are stored
C14_Witness ==
    /\ requests["r1"].sessionId = "s1"
    /\ requests["r2"].sessionId = "s2"
    /\ requests["r1"].pc = "done"
    /\ requests["r2"].pc = "awaitModel"
    /\ requests["r1"].depth = 1
    /\ requests["r2"].depth = 1
    /\ "s1" \in DOMAIN sessions
    /\ Len(sessions["s1"].nativeHistory) = 4
    /\ "s2" \in DOMAIN sessions
    /\ Len(sessions["s2"].nativeHistory) = 3

\* C15: in every reachable state at most one orchestration loop is in
\* flight per session id: a second processMessage for a session id whose
\* loop is suspended does not start its own loop before the first finished.
C15_OneLoopPerSession ==
    \A r, q \in RequestIds :
        (r # q /\ InFlight(r) /\ InFlight(q))
        => requests[r].sessionId # requests[q].sessionId

---------------------------------------------------------------------------
(* The history adapters applied to agnostic message lists                  *)

Managers == {"gemini", "openai"}

EchoCall == [id |-> "call_1", name |-> "echo", args |-> {<<"message", "hi">>}]

TransferCall ==
    [id |-> "call_2", name |-> "transfer_money", args |-> {<<"isConfirmed", "true">>}]

\* LLMMessage values: user and assistant text turns (the empty text too),
\* assistant tool-call turns and tool-result turns
AgnosticMessages ==
    { [role |-> "user", content |-> "hi"],
      [role |-> "user", content |-> ""],
      [role |-> "assistant", content |-> "hello"],
      [role |-> "assistant", toolCalls |-> <<EchoCall>>],
      [role |-> "assistant", toolCalls |-> <<EchoCall, TransferCall>>],
      [role |-> "tool",
       toolResult |-> [callId |-> "call_1", result |-> [echoed |-> "hi"]]] }

MessageLists ==
    UNION { [1..n -> AgnosticMessages] : n \in 0..MaxLen }

\* the vendor replies whose tool-call turn is handed to addAssistantToolCalls
AdapterReplies(manager) ==
    IF manager = "gemini"
    THEN { GeminiReply(<<[text |-> "checking"],
                         FunctionCallPart("echo", {<<"message", "hi">>})>>),
           GeminiReply(<<FunctionCallPart("echo", {<<"message", "hi">>}),
                         FunctionCallPart("echo", {<<"message", "bye">>})>>) }
    ELSE { OpenAIReply([role |-> "assistant", content |-> "checking",
                        tool_calls |-> <<OpenAICall("call_1", "echo",
                                           JSONstringify({<<"message", "hi">>}))>>]),
           OpenAIReply(OpenAIToolMessage(
               <<OpenAICall("call_1", "echo", JSONstringify({<<"message", "hi">>})),
                 OpenAICall("call_2", "echo",
                            JSONstringify({<<"message", "bye">>}))>>)) }

AdapterResults ==
    { [success |-> TRUE, message |-> <<"Echo: ", "hi">>, data |-> [echoed |-> "hi"]],
      [success |-> FALSE, message |-> <<"Transfer failed: ", "timeout">>] }

\* [...history, entry] and the result array of toProviderFormat are new
\* arrays: the arrays that exist keep what they hold
NewArray(heap, manager, op, content) ==
    Append(heap, [manager |-> manager, from |-> op, content |-> content])

ToProviderFormat(manager) ==
    /\ Len(arrays) < MaxArrays
    /\ arrays' = NewArray(arrays, manager, "toProviderFormat",
                          toProviderFormat(manager, inputMessages))
    /\ call' = [op |-> "toProviderFormat", manager |-> manager,
                ret |-> Len(arrays) + 1]
    /\ UNCHANGED <<toolVars, loopVars, now, touched, requests, owner, alone,
                   inputMessages, cfgVars>>

ToAgnosticFormat(ref) ==
    /\ ref \in 1..Len(arrays)
    /\ call' = [op |-> "toAgnosticFormat", manager |-> arrays[ref].manager,
                input |-> ref,
                ret |-> toAgnosticFormat(arrays[ref].manager, arrays[ref].content)]
    /\ UNCHANGED <<toolVars, loopVars, now, touched, requests, owner, alone,
                   inputMessages, arrays, cfgVars>>

AddUserMessage(ref, content) ==
    /\ ref \in 1..Len(arrays)
    /\ Len(arrays) < MaxArrays
    /\ arrays' = NewArray(arrays, arrays[ref].manager, "addUserMessage",
                          addUserMessage(arrays[ref].manager, arrays[ref].content,
                                         content))
    /\ call' = [op |-> "addUserMessage", manager |-> arrays[ref].manager,
                input |-> ref, before |-> arrays[ref].content,
                ret |-> Len(arrays) + 1]
    /\ UNCHANGED <<toolVars, loopVars, now, touched, requests, owner, alone,
                   inputMessages, cfgVars>>

AddAssistantMessage(ref, content) ==
    /\ ref \in 1..Len(arrays)
    /\ Len(arrays) < MaxArrays
    /\ arrays' = NewArray(arrays, arrays[ref].manager, "addAssistantMessage",
                          addAssistantMessage(arrays[ref].manager,
                                              arrays[ref].content, content))
    /\ call' = [op |-> "addAssistantMessage", manager |-> arrays[ref].manager,
                input |-> ref, before |-> arrays[ref].content,
                ret |-> Len(arrays) + 1]
    /\ UNCHANGED <<toolVars, loopVars, now, touched, requests, owner, alone,
                   inputMessages, cfgVars>>

\* the loops hand over the normalised tool calls and the vendor's reply;
\* withRaw = FALSE is a caller that hands over the tool calls alone
AddAssistantToolCalls(ref, reply, withRaw) ==
    /\ ref \in 1..Len(arrays)
    /\ Len(arrays) < MaxArrays
    /\ reply \in AdapterReplies(arrays[ref].manager)
    /\ LET manager == arrays[ref].manager
           res == Normalize(manager, reply).response
           rawResponse == IF withRaw THEN res.rawResponse ELSE EmptyObject
       IN  /\ arrays' = NewArray(arrays, manager, "addAssistantToolCalls",
                                 addAssistantToolCalls(manager, arrays[ref].content,
                                                       res.toolCalls, rawResponse))
           /\ call' = [op |-> "addAssistantToolCalls", manager |-> manager,
                       input |-> ref, before |-> arrays[ref].content,
                       toolCalls |-> res.toolCalls, rawResponse |-> rawResponse,
                       ret |-> Len(arrays) + 1]
    /\ UNCHANGED <<toolVars, loopVars, now, touched, requests, owner, alone,
                   inputMessages, cfgVars>>

AddToolResults(ref, toolCall, result) ==
    /\ ref \in 1..Len(arrays)
    /\ Len(arrays) < MaxArrays
    /\ arrays' = NewArray(arrays, arrays[ref].manager, "addToolResults",
                          addToolResults(arrays[ref].manager, arrays[ref].content,
                                         toolCall, result))
    /\ call' = [op |-> "addToolResults", manager |-> arrays[ref].manager,
                input |-> ref, before |-> arrays[ref].content,
                toolCall |-> toolCall, result |-> result,
                ret |-> Len(arrays) + 1]
    /\ UNCHANGED <<toolVars, loopVars, now, touched, requests, owner, alone,
                   inputMessages, cfgVars>>

AllAdapterReplies == AdapterReplies("gemini") \cup AdapterReplies("openai")

AdaptersNext ==
    \/ \E manager \in Managers : ToProviderFormat(manager)
    \/ \E ref \in 1..MaxArrays : ToAgnosticFormat(ref)
    \/ \E ref \in 1..MaxArrays, content \in {"hi", ""} : AddUserMessage(ref, content)
    \/ \E ref \in 1..MaxArrays, content \in {"hello", ""} :
            AddAssistantMessage(ref, content)
    \/ \E ref \in 1..MaxArrays, reply \in AllAdapterReplies, withRaw \in BOOLEAN :
            AddAssistantToolCalls(ref, reply, withRaw)
    \/ \E ref \in 1..MaxArrays, toolCall \in {EchoCall, TransferCall},
          result \in AdapterResults :
            AddToolResults(ref, toolCall, result)

InitAdapters ==
    /\ toolRegistry = ConstructedRegistry
    /\ exec = NoExec
    /\ firstReg = [n \in RegNames |->
                     IF n = "echo"
                     THEN [definition |-> EchoDefinition, handler |-> "echo"]
                     ELSE NoReg]
    /\ lastOp = [op |-> "constructor"]
    /\ sessions = << >>
    /\ shared = FALSE
    /\ svc = "none"
    /\ model = "none"
    /\ pc = "idle"
    /\ providerName = "none"
    /\ historyManager = "none"
    /\ nativeHistory = << >>
    /\ depth = 0
    /\ response = NoResponse
    /\ idx = 0
    /\ outcome = NoOutcome
    /\ invocations = 0
    /\ roundStart = 0
    /\ started = 0
    /\ userTurn = 0
    /\ now = 0
    /\ touched = << >>
    /\ requests = << >>
    /\ owner = << >>
    /\ alone = << >>
    /\ inputMessages \in MessageLists
    /\ arrays = << >>
    /\ call = [op |-> "none"]
    /\ CfgIdle

SpecAdapters == InitAdapters /\ [][AdaptersNext]_vars

(* Claims about the history adapters, under SpecAdapters *)

\* the last call turned back what toProviderFormat made of the given list
RoundTripCall ==
    /\ call.op = "toAgnosticFormat"
    /\ arrays[call.input].from = "toProviderFormat"

IsTextTurn(m) == m.role \in {"user", "assistant"} /\ ~HasToolCalls(m)
IsToolCallTurn(m) == m.role = "assistant" /\ HasToolCalls(m)
IsToolResultTurn(m) == m.role = "tool"

TextOnly(list) == \A i \in 1..Len(list) : IsTextTurn(list[i])

\* C16: for both adapters and every list of user turns and assistant text
\* turns, with any content string, the empty string included,
\* toAgnosticFormat(toProviderFormat(messages)) equals messages.
C16_TextRoundTrip ==
    (RoundTripCall /\ TextOnly(inputMessages))
    => /\ call.ret.ok
       /\ call.ret.messages = inputMessages

NoEmptyText(list) ==
    \A i \in 1..Len(list) : IsTextTurn(list[i]) => list[i].content # ""

\* the tool-call turn o is the turn m with, under Gemini, the name of each
\* call in place of its id
SameCalls(manager, m, o) ==
    /\ o.role = "assistant"
    /\ "toolCalls" \in DOMAIN o
    /\ Len(o.toolCalls) = Len(m.toolCalls)
    /\ \A k \in 1..Len(m.toolCalls) :
          /\ o.toolCalls[k].name = m.toolCalls[k].name
          /\ o.toolCalls[k].args = m.toolCalls[k].args
          /\ o.toolCalls[k].id = IF manager = "gemini" THEN m.toolCalls[k].name
                                 ELSE m.toolCalls[k].id

SameResult(m, o) ==
    /\ o.role = "tool"
    /\ "toolResult" \in DOMAIN o
    /\ o.toolResult.callId = m.toolResult.callId
    /\ "result" \in DOMAIN o.toolResult
    /\ o.toolResult.result = m.toolResult.result

\* C17: for both adapters, an assistant tool-call turn and a tool-result
\* turn come back from toAgnosticFormat(toProviderFormat(messages)) as one
\* message each, of the same role, with the same tool names, arguments and
\* result payload; the one difference is that the Gemini adapter puts the
\* tool name in the place of each call id.
C17_ToolTurnsRoundTrip ==
    (RoundTripCall /\ NoEmptyText(inputMessages))
    => /\ call.ret.ok
       /\ Len(call.ret.messages) = Len(inputMessages)
       /\ \A i \in 1..Len(inputMessages) :
             /\ IsToolCallTurn(inputMessages[i])
                => SameCalls(call.manager, inputMessages[i], call.ret.messages[i])
             /\ IsToolResultTurn(inputMessages[i])
                => SameResult(inputMessages[i], call.ret.messages[i])

\* a turn of two calls and a tool result went through the Gemini adapter
\* and back
C17_Witness ==
    /\ RoundTripCall
    /\ call.manager = "gemini"
    /\ Len(inputMessages) = 2
    /\ IsToolCallTurn(inputMessages[1])
    /\ Len(inputMessages[1].toolCalls) = 2
    /\ IsToolResultTurn(inputMessages[2])
    /\ call.ret.messages[1].toolCalls[2].id = "transfer_money"

\* the calls of the assistant turns before position i
CallsBefore(list, i) ==
    UNION { { list[j].toolCalls[k] : k \in 1..Len(list[j].toolCalls) } :
            j \in { h \in 1..(i - 1) : IsToolCallTurn(list[h]) } }

\* the entry the adapter wrote for the message m at position i of the list
RightEntry(manager, list, i, entry) ==
    LET m == list[i]
    IN  IF m.role = "user" THEN entry.role = "user"
        ELSE IF m.role = "assistant"
        THEN IF manager = "openai"
             THEN /\ entry.role = "assistant"
                  /\ HasToolCalls(m) => entry.content = Null
             ELSE entry.role = "model"
        ELSE IF manager = "openai"
        THEN /\ entry.role = "tool"
             /\ entry.tool_call_id = m.toolResult.callId
        ELSE /\ entry.role = "user"
             /\ "functionResponse" \in DOMAIN entry.parts[1]
             /\ \A c \in CallsBefore(list, i) :
                   c.id = m.toolResult.callId
                   => entry.parts[1].functionResponse.name = c.name

LastEntry(ref) == arrays[ref].content[Len(arrays[ref].content)]

\* C18: the OpenAI adapter writes a tool result as an entry of role 'tool'
\* keyed by the call id and an assistant turn with role 'assistant' (content
\* null when tool calls are attached); the Gemini adapter writes a tool
\* result as an entry of role 'user' with a functionResponse part keyed by
\* the tool name and an assistant turn with role 'model'; both write a user
\* turn with role 'user'; in the add operations and in toProviderFormat.
C18_RoleMapping ==
    /\ call.op = "toProviderFormat"
       => LET out == arrays[call.ret].content
          IN  /\ Len(out) = Len(inputMessages)
              /\ \A i \in 1..Len(inputMessages) :
                    RightEntry(call.manager, inputMessages, i, out[i])
    /\ call.op = "addUserMessage" => LastEntry(call.ret).role = "user"
    /\ call.op = "addAssistantMessage"
       => LastEntry(call.ret).role =
            (IF call.manager = "openai" THEN "assistant" ELSE "model")
    /\ call.op = "addAssistantToolCalls"
       => IF call.manager = "openai"
          THEN /\ LastEntry(call.ret).role = "assistant"
               /\ LastEntry(call.ret).content = Null
          ELSE LastEntry(call.ret).role = "model"
    /\ call.op = "addToolResults"
       => IF call.manager = "openai"
          THEN /\ LastEntry(call.ret).role = "tool"
               /\ LastEntry(call.ret).tool_call_id = call.toolCall.id
          ELSE /\ LastEntry(call.ret).role = "user"
               /\ LastEntry(call.ret).parts[1].functionResponse.name
                    = call.toolCall.name

AddOps ==
    {"addUserMessage", "addAssistantMessage", "addAssistantToolCalls",
     "addToolResults"}

\* C19: each of addUserMessage, addAssistantMessage, addAssistantToolCalls
\* and addToolResults of both adapters leaves the list it was given as it
\* was and returns a new list: the given one followed by exactly one entry.
C19_AddReturnsNewList ==
    call.op \in AddOps
    => LET given == arrays[call.input].content
           out == arrays[call.ret].content
       IN  /\ given = call.before
           /\ call.ret # call.input
           /\ Len(out) = Len(given) + 1
           /\ SubSeq(out, 1, Len(given)) = given

\* a turn of two tool calls was added to a list of two entries
C19_Witness ==
    /\ call.op = "addAssistantToolCalls"
    /\ Len(call.toolCalls) = 2
    /\ Len(call.before) = 2
    /\ Len(arrays[call.ret].content) = 3

\* the assistant turn the vendor emitted, where the reply holds one
HasVendorTurn(manager, rawResponse) ==
    IF manager = "gemini" THEN HasRawContent(rawResponse)
    ELSE "choices" \in DOMAIN rawResponse /\ Len(rawResponse.choices) > 0

VendorTurn(manager, rawResponse) ==
    IF manager = "gemini" THEN rawResponse.candidates[1].content
    ELSE rawResponse.choices[1].message

\* C20: for every history adapter, when addAssistantToolCalls is given a
\* rawResponse that holds the vendor's assistant turn, the entry it appends
\* is that turn as the vendor emitted it; the entry is built from toolCalls
\* only when there is no usable rawResponse.
C20_RawTurnVerbatim ==
    call.op = "addAssistantToolCalls"
    => IF HasVendorTurn(call.manager, call.rawResponse)
       THEN LastEntry(call.ret) = VendorTurn(call.manager, call.rawResponse)
       ELSE LET back == toAgnosticFormat(call.manager, <<LastEntry(call.ret)>>)
            IN  /\ back.ok
                /\ Len(back.messages) = 1
                /\ Len(back.messages[1].toolCalls) = Len(call.toolCalls)
                /\ \A k \in 1..Len(call.toolCalls) :
                      /\ back.messages[1].toolCalls[k].name = call.toolCalls[k].name
                      /\ back.messages[1].toolCalls[k].args = call.toolCalls[k].args

---------------------------------------------------------------------------
(* A deployment under its configured provider: ChatService requests, one   *)
(* after the other, with DEFAULT_LLM_CONFIG.provider as deployed           *)

\* getHistoryManager(provider): the adapter of the identity, or the throw of
\* the default branch
getHistoryManager(provider) ==
    IF provider \in {"gemini", "openai", "anthropic"}
    THEN [ok |-> TRUE, manager |-> ManagerOf(provider)]
    ELSE [ok |-> FALSE,
          error |-> [message |-> <<"Unknown provider: ", provider>>]]

\* LLMFactoryService.getProvider, the API keys being configured
getProvider(provider) ==
    IF provider \in {"gemini", "openai"}
    THEN [ok |-> TRUE, name |-> provider]
    ELSE IF provider = "anthropic"
    THEN [ok |-> FALSE,
          error |-> [message |-> <<"Anthropic provider not yet implemented.">>]]
    ELSE [ok |-> FALSE,
          error |-> [message |-> <<"Unknown LLM provider: ", provider,
                                   ". Supported: gemini, openai">>]]

\* what DEFAULT_LLM_CONFIG.provider may be set to
Deployments == {"gemini", "openai", "anthropic", "mistral"}

\* ChatService.processMessage up to the first model invocation: the session
\* is fetched or created first, then the provider adapter and the history
\* manager are selected
ConfiguredProcessMessage(message) ==
    /\ pc \in {"idle", "done", "failed"}
    /\ served < MaxMessages
    /\ served' = served + 1
    /\ LET store == getOrCreateSession(sessions, SessionId, defaultConfig)
           session == store[SessionId]
           made == getProvider(defaultConfig)
           manager == getHistoryManager(session.provider)
       IN  /\ sessions' = store
           /\ IF ~made.ok \/ ~manager.ok
              THEN /\ pc' = "failed"
                   /\ outcome' = [kind |-> "rejected", at |-> "processMessage",
                                  error |-> IF ~made.ok THEN made.error
                                            ELSE manager.error]
                   /\ nativeHistory' = << >>
                   /\ userTurn' = 0
                   /\ invocations' = 0
                   /\ UNCHANGED <<providerName, historyManager>>
              ELSE /\ pc' = "awaitModel"
                   /\ outcome' = NoOutcome
                   /\ providerName' = made.name
                   /\ historyManager' = session.provider
                   /\ nativeHistory' = addUserMessage(session.provider,
                                                      session.nativeHistory, message)
                   /\ userTurn' = Len(session.nativeHistory) + 1
                   /\ invocations' = 1
    /\ shared' = FALSE
    /\ svc' = "chat"
    /\ model' = "brief"
    /\ depth' = 0
    /\ response' = NoResponse
    /\ idx' = 0
    /\ roundStart' = 0
    /\ started' = 0
    /\ UNCHANGED <<toolVars, now, touched, requests, owner, alone, adapterVars,
                   defaultConfig, config, copy, lists, updates>>

ProvidersNext ==
    \/ \E m \in UserMessages : ConfiguredProcessMessage(m)
    \/ \E e \in VendorErrors : ModelFails(e)
    \/ \E reply \in AllVendorReplies : ModelRepliesText(reply)
    \/ \E reply \in AllVendorReplies : ModelRequestsTools(reply)
    \/ \E settled \in LoopSettlements : HandlerReturns(settled)
    \/ ExecuteToolReturns
    \/ DeleteSession(SessionId)

InitProviders ==
    /\ toolRegistry = BuiltInRegistry
    /\ exec = NoExec
    /\ firstReg = [n \in RegNames |->
                     IF n = "echo"
                     THEN [definition |-> EchoDefinition, handler |-> "echo"]
                     ELSE NoReg]
    /\ lastOp = [op |-> "onModuleInit"]
    /\ sessions = << >>
    /\ shared = FALSE
    /\ svc = "none"
    /\ model = "none"
    /\ pc = "idle"
    /\ providerName = "none"
    /\ historyManager = "none"
    /\ nativeHistory = << >>
    /\ depth = 0
    /\ response = NoResponse
    /\ idx = 0
    /\ outcome = NoOutcome
    /\ invocations = 0
    /\ roundStart = 0
    /\ started = 0
    /\ userTurn = 0
    /\ now = 0
    /\ touched = << >>
    /\ requests = << >>
    /\ owner = << >>
    /\ alone = << >>
    /\ inputMessages = << >>
    /\ arrays = << >>
    /\ call = [op |-> "none"]
    /\ defaultConfig \in Deployments
    /\ served = 0
    /\ config = FactoryConfig
    /\ copy = NoCopy
    /\ lists = << >>
    /\ updates = 0

SpecProviders == InitProviders /\ [][ProvidersNext]_vars

(* Claims about the provider of a session, under SpecProviders *)

\* C21: a session is never created with a provider identity for which
\* getHistoryManager has no adapter: getOrCreateSession fails for such an
\* identity and stores nothing, so no stored session has one.
C21_UnknownProviderStoresNothing ==
    \A id \in DOMAIN sessions : getHistoryManager(sessions[id].provider).ok

\* the shape of the entries each history adapter writes
GeminiShaped(e) ==
    /\ e.role \in {"user", "model"}
    /\ "parts" \in DOMAIN e
    /\ "content" \notin DOMAIN e

OpenAIShaped(e) ==
    /\ e.role \in {"user", "assistant", "tool"}
    /\ "content" \in DOMAIN e
    /\ "parts" \notin DOMAIN e

ShapedFor(provider, history) ==
    \A i \in 1..Len(history) :
        IF provider = "gemini" THEN GeminiShaped(history[i])
        ELSE OpenAIShaped(history[i])

---------------------------------------------------------------------------
(* One provider adapter object: generateWithNativeHistory on a caller's    *)
(* transcript, updateConfig and getConfig                                  *)

CallersArrayUnshifted(history, systemPrompt) ==
    IF systemPrompt # "" /\ (history = << >> \/ history[1].role # "system")
    THEN <<[role |-> "system", content |-> systemPrompt]>> \o history
    ELSE history

\* const messages = [...nativeHistory]: the caller's array is not written
CallersArrayAfter(history, systemPrompt) == history

\* the messages OpenAIProvider.generateWithNativeHistory hands to
\* executeRequest
OpenAIRequestMessages(history, systemPrompt) ==
    IF systemPrompt # "" /\ (history = << >> \/ history[1].role # "system")
    THEN <<[role |-> "system", content |-> systemPrompt]>> \o history
    ELSE history

\* the request GeminiProvider.generateWithNativeHistory makes
GeminiRequest(history, systemPrompt) ==
    IF systemPrompt # ""
    THEN [contents |-> history, systemInstruction |-> <<[text |-> systemPrompt]>>]
    ELSE [contents |-> history]

\* DEFAULT_SYSTEM_PROMPT, and a caller that passes none
SystemPrompts == {"", "You are a banking assistant."}

\* replies of the vendor to the n-th call: those of the loops, and replies
\* that leave out counts, text or tool calls
GenerateReplies(provider, n) ==
    IF provider = "gemini"
    THEN GeminiTextReplies \cup GeminiToolReplies
         \cup { [candidates |-> <<[content |-> [role |-> "model",
                                                parts |-> <<[text |-> "final"]>>]]>>,
                 usageMetadata |-> [promptTokenCount |-> 7]],
                [usageMetadata |-> [totalTokenCount |-> 10]] }
    ELSE OpenAITextReplies \cup OpenAIToolReplies(n)
         \cup { [choices |-> <<[message |-> [role |-> "assistant",
                                             content |-> "final",
                                             tool_calls |-> << >>]]>>,
                 usage |-> [prompt_tokens |-> 7]] }

AllGenerateReplies ==
    GenerateReplies("gemini", 1)
    \cup UNION { GenerateReplies("openai", n) : n \in 1..(MaxCalls + 1) }

GenerateWithNativeHistory(systemPrompt, reply) ==
    /\ invocations < MaxCalls
    /\ reply \in GenerateReplies(providerName, invocations + 1)
    /\ call.op = "generateWithNativeHistory" => call.recorded
    /\ invocations' = invocations + 1
    /\ nativeHistory' = CallersArrayAfter(nativeHistory, systemPrompt)
    /\ LET norm == Normalize(providerName, reply)
           request == IF providerName = "gemini"
                      THEN GeminiRequest(nativeHistory, systemPrompt)
                      ELSE [messages |-> OpenAIRequestMessages(nativeHistory,
                                                               systemPrompt)]
       IN  call' = IF norm.ok
                   THEN [op |-> "generateWithNativeHistory",
                         systemPrompt |-> systemPrompt, given |-> nativeHistory,
                         request |-> request, reply |-> reply, ok |-> TRUE,
                         response |-> norm.response, recorded |-> FALSE]
                   ELSE [op |-> "generateWithNativeHistory",
                         systemPrompt |-> systemPrompt, given |-> nativeHistory,
                         request |-> request, reply |-> reply, ok |-> FALSE,
                         error |-> norm.error, recorded |-> TRUE]
    /\ UNCHANGED <<toolVars, sessions, shared, svc, model, pc, providerName,
                   historyManager, depth, response, idx, outcome, roundStart,
                   started, userTurn, now, touched, requests, owner, alone,
                   inputMessages, arrays, cfgVars>>

\* the result entries the loops append for the calls of one turn
RECURSIVE WithToolResults(_, _, _)
WithToolResults(provider, history, toolCalls) ==
    IF toolCalls = << >> THEN history
    ELSE WithToolResults(provider,
                         addToolResults(provider, history, Head(toolCalls),
                                        [success |-> TRUE, message |-> <<"done">>,
                                         data |-> [echoed |-> "hi"]]),
                         Tail(toolCalls))

\* the caller records the turn as the loops do: the tool-call turn with its
\* results, or the text
CallerRecordsTurn ==
    /\ call.op = "generateWithNativeHistory"
    /\ ~call.recorded
    /\ call' = [call EXCEPT !.recorded = TRUE]
    /\ nativeHistory' =
         IF Len(call.response.toolCalls) > 0
         THEN WithToolResults(providerName,
                              addAssistantToolCalls(providerName, nativeHistory,
                                                    call.response.toolCalls,
                                                    call.response.rawResponse),
                              call.response.toolCalls)
         ELSE IF Truthy(call.response.text)
         THEN addAssistantMessage(providerName, nativeHistory, call.response.text)
         ELSE nativeHistory
    /\ UNCHANGED <<toolVars, sessions, shared, svc, model, pc, providerName,
                   historyManager, depth, response, idx, outcome, invocations,
                   roundStart, started, userTurn, now, touched, requests, owner,
                   alone, inputMessages, arrays, cfgVars>>

\* the caller adds the user's message of the next request
CallerAddsUserMessage(content) ==
    /\ call.op \in {"none", "generateWithNativeHistory"}
    /\ call.op = "generateWithNativeHistory" => call.recorded
    /\ userTurn < MaxCalls
    /\ userTurn' = userTurn + 1
    /\ nativeHistory' = addUserMessage(providerName, nativeHistory, content)
    /\ call' = [op |-> "none"]
    /\ UNCHANGED <<toolVars, sessions, shared, svc, model, pc, providerName,
                   historyManager, depth, response, idx, outcome, invocations,
                   roundStart, started, now, touched, requests, owner,
                   alone, inputMessages, arrays, cfgVars>>

\* the partial overrides handed to updateConfig
Partials ==
    { [temperature |-> "0.2"],
      [model |-> "gemini-2.5-flash", maxTokens |-> 1024],
      [topK |-> 40],
      [stopSequences |-> <<"END">>],
      EmptyObject }

updateConfigReplaces(held, partial) == partial

\* { ...this.config, ...newConfig }
updateConfig(held, partial) ==
    [f \in DOMAIN held \cup DOMAIN partial |->
        IF f \in DOMAIN partial THEN partial[f] ELSE held[f]]

\* { ...this.config }: a new object with the same property values
getConfig(held) == held

\* an object whose array properties are the references into lists
Deref(obj, arrays_) ==
    [f \in DOMAIN obj |->
        IF f = "stopSequences" THEN arrays_[obj[f]] ELSE obj[f]]

\* the configuration the adapter holds, by value
Held == Deref(config, lists)

UpdateConfig(partial) ==
    /\ updates < MaxUpdates
    /\ updates' = updates + 1
    /\ IF "stopSequences" \in DOMAIN partial
       THEN /\ lists' = Append(lists, partial.stopSequences)
            /\ config' = updateConfig(config,
                                      [partial EXCEPT !.stopSequences = Len(lists) + 1])
       ELSE /\ lists' = lists
            /\ config' = updateConfig(config, partial)
    /\ call' = [op |-> "updateConfig", before |-> Held, partial |-> partial]
    /\ UNCHANGED <<toolVars, loopVars, now, touched, requests, owner, alone,
                   inputMessages, arrays, defaultConfig, served, copy>>

GetConfig ==
    /\ copy' = getConfig(config)
    /\ call' = [op |-> "getConfig", before |-> Held]
    /\ UNCHANGED <<toolVars, loopVars, now, touched, requests, owner, alone,
                   inputMessages, arrays, defaultConfig, served, config, lists,
                   updates>>

\* the caller assigns a property of the object it got from getConfig
CallerAssigns(field, value) ==
    /\ copy # NoCopy
    /\ field \in DOMAIN copy
    /\ copy[field] # value
    /\ copy' = [copy EXCEPT ![field] = value]
    /\ call' = [op |-> "assign", before |-> Held]
    /\ UNCHANGED <<toolVars, loopVars, now, touched, requests, owner, alone,
                   inputMessages, arrays, defaultConfig, served, config, lists,
                   updates>>

\* the caller pushes onto the stopSequences of the object it got
CallerPushes(text) ==
    /\ "stopSequences" \in DOMAIN copy
    /\ Len(lists[copy.stopSequences]) < 2
    /\ lists' = [lists EXCEPT ![copy.stopSequences] = Append(@, text)]
    /\ call' = [op |-> "push", before |-> Held]
    /\ UNCHANGED <<toolVars, loopVars, now, touched, requests, owner, alone,
                   inputMessages, arrays, defaultConfig, served, config, copy,
                   updates>>

\* the model invocations of one caller on one adapter
GenerateNext ==
    \/ \E systemPrompt \in SystemPrompts, reply \in AllGenerateReplies :
            GenerateWithNativeHistory(systemPrompt, reply)
    \/ CallerRecordsTurn
    \/ \E content \in UserMessages : CallerAddsUserMessage(content)

\* the configuration calls on one adapter
ConfigNext ==
    \/ \E partial \in Partials : UpdateConfig(partial)
    \/ GetConfig
    \/ \E value \in {"0.7", "1.0"} : CallerAssigns("temperature", value)
    \/ CallerPushes("STOP")

InitProvider ==
    /\ toolRegistry = ConstructedRegistry
    /\ exec = NoExec
    /\ firstReg = [n \in RegNames |->
                     IF n = "echo"
                     THEN [definition |-> EchoDefinition, handler |-> "echo"]
                     ELSE NoReg]
    /\ lastOp = [op |-> "constructor"]
    /\ sessions = << >>
    /\ shared = FALSE
    /\ svc = "none"
    /\ model = "none"
    /\ pc = "idle"
    /\ providerName \in {"gemini", "openai"}
    /\ historyManager = "none"
    /\ nativeHistory = << >>
    /\ depth = 0
    /\ response = NoResponse
    /\ idx = 0
    /\ outcome = NoOutcome
    /\ invocations = 0
    /\ roundStart = 0
    /\ started = 0
    /\ userTurn = 0
    /\ now = 0
    /\ touched = << >>
    /\ requests = << >>
    /\ owner = << >>
    /\ alone = << >>
    /\ inputMessages = << >>
    /\ arrays = << >>
    /\ call = [op |-> "none"]
    /\ defaultConfig = DefaultProvider
    /\ served = 0
    /\ config = FactoryConfig
    /\ copy = NoCopy
    /\ lists = << >>
    /\ updates = 0

SpecGenerate == InitProvider /\ [][GenerateNext]_vars

SpecConfig == InitProvider /\ [][ConfigNext]_vars

(* Claims about the normalised response, under SpecGenerate *)

\* generateWithNativeHistory returned a normalised response
Normalized == call.op = "generateWithNativeHistory" /\ call.ok

\* C23: in every normalised LLMResponse the ids of the tool calls of the
\* turn are pairwise distinct, also when the vendor's reply asks for the
\* same tool more than once.
C23_ToolCallIdsDistinct ==
    Normalized
    => \A i, j \in 1..Len(call.response.toolCalls) :
          i # j => call.response.toolCalls[i].id # call.response.toolCalls[j].id

\* the parts of a Gemini reply, none when there is no content
VendorParts(reply) ==
    IF HasRawContent(reply) /\ "parts" \in DOMAIN reply.candidates[1].content
    THEN reply.candidates[1].content.parts
    ELSE << >>

\* the vendor's reply holds a textual part
HasTextualPart(provider, reply) ==
    IF provider = "gemini"
    THEN \E i \in 1..Len(VendorParts(reply)) : "text" \in DOMAIN VendorParts(reply)[i]
    ELSE reply.choices[1].message.content # Null

\* the vendor's reply holds a tool call
IssuedToolCalls(provider, reply) ==
    IF provider = "gemini"
    THEN \E i \in 1..Len(VendorParts(reply)) :
            "functionCall" \in DOMAIN VendorParts(reply)[i]
    ELSE /\ "tool_calls" \in DOMAIN reply.choices[1].message
         /\ Len(reply.choices[1].message.tool_calls) > 0

\* the vendor's name of each usage field
VendorCountName(provider, field) ==
    IF provider = "gemini"
    THEN CASE field = "inputTokens" -> "promptTokenCount"
           [] field = "outputTokens" -> "candidatesTokenCount"
           [] field = "totalTokens" -> "totalTokenCount"
    ELSE CASE field = "inputTokens" -> "prompt_tokens"
           [] field = "outputTokens" -> "completion_tokens"
           [] field = "totalTokens" -> "total_tokens"

\* the vendor's reply states the count
GaveCount(provider, reply, field) ==
    LET holder == IF provider = "gemini" THEN "usageMetadata" ELSE "usage"
    IN  /\ holder \in DOMAIN reply
        /\ VendorCountName(provider, field) \in DOMAIN reply[holder]

\* C24: for both provider adapters and every vendor reply, the normalised
\* response has text = null when the reply holds no textual part, toolCalls
\* = the empty list when the vendor issued no tool call, and every usage
\* field the vendor left out = 0.
C24_NormalizedDefaults ==
    Normalized
    => /\ ~HasTextualPart(providerName, call.reply) => call.response.text = Null
       /\ ~IssuedToolCalls(providerName, call.reply)
          => call.response.toolCalls = << >>
       /\ \A field \in {"inputTokens", "outputTokens", "totalTokens"} :
             ~GaveCount(providerName, call.reply, field)
             => call.response.usage[field] = 0

\* a Gemini reply without candidates that states the total count alone
C24_Witness ==
    /\ Normalized
    /\ providerName = "gemini"
    /\ ~HasRawContent(call.reply)
    /\ call.response.text = Null
    /\ call.response.toolCalls = << >>
    /\ call.response.usage =
         [inputTokens |-> 0, outputTokens |-> 0, totalTokens |-> 10]

(* Claims about the system instruction, under SpecGenerate *)

SystemTurns(list) == { i \in 1..Len(list) : list[i].role = "system" }

\* C26: whenever the OpenAI adapter is called with a non-empty system
\* prompt, the messages it sends hold exactly one system instruction, as
\* the first element, followed by the caller's transcript; the caller's
\* transcript, which is what the session stores, never holds a system turn.
C26_OneLeadingSystemInstruction ==
    /\ SystemTurns(nativeHistory) = {}
    /\ (/\ call.op = "generateWithNativeHistory"
        /\ providerName = "openai"
        /\ call.systemPrompt # "")
       => /\ SystemTurns(call.request.messages) = {1}
          /\ call.request.messages[1].content = call.systemPrompt
          /\ Tail(call.request.messages) = call.given

\* the second call of a request, made on the transcript of a tool round
C26_Witness ==
    /\ call.op = "generateWithNativeHistory"
    /\ providerName = "openai"
    /\ call.systemPrompt # ""
    /\ invocations = 2
    /\ Len(call.given) >= 3
    /\ \E i \in 1..Len(call.given) : call.given[i].role = "tool"

(* Claims about the held configuration, under SpecConfig *)

\* C29: updateConfig(partial) sets the fields of the partial override and
\* leaves every other field of the held configuration as it was, and
\* nothing a caller does to the object it got from getConfig changes the
\* held configuration.
C29_UpdateConfigMerges ==
    /\ call.op = "updateConfig"
       => /\ \A f \in DOMAIN call.before \ DOMAIN call.partial :
                f \in DOMAIN Held /\ Held[f] = call.before[f]
          /\ \A f \in DOMAIN call.partial :
                f \in DOMAIN Held /\ Held[f] = call.partial[f]
    /\ call.op \in {"getConfig", "assign", "push"} => Held = call.before

(* Claims about unparsable tool arguments, under Spec *)

\* the tool calls of an OpenAI message, none when it has no tool_calls
MessageCalls(message) ==
    IF "tool_calls" \in DOMAIN message THEN message.tool_calls ELSE << >>

\* a tool call of the message carries an argument string that is no JSON text
HasUnparsableArguments(message) ==
    \E i \in 1..Len(MessageCalls(message)) :
        "json" \notin DOMAIN MessageCalls(message)[i].function.arguments

\* C25: a reply of the OpenAI vendor with a tool call whose argument string
\* cannot be parsed never becomes the response of a round: the invocation
\* throws the parse error, the request is rejected with it, no tool is
\* called for that reply and the transcript holds no turn made of it.
C25_UnparsableArgumentsFailTheRequest ==
    /\ (providerName = "openai" /\ "rawResponse" \in DOMAIN response)
       => ~HasUnparsableArguments(response.rawResponse.choices[1].message)
    /\ providerName = "openai"
       => \A i \in 1..Len(nativeHistory) : ~HasUnparsableArguments(nativeHistory[i])
    /\ (/\ lastOp.op = "generateWithNativeHistory"
        /\ lastOp.threw.message = <<"SyntaxError">>)
       => /\ pc = "failed"
          /\ outcome = [kind |-> "rejected", at |-> "model", error |-> lastOp.threw]
          /\ exec = NoExec

\* the second reply of a request cannot be parsed: the first round's tools
\* have run, the request is rejected
C25_Witness ==
    /\ lastOp.op = "generateWithNativeHistory"
    /\ lastOp.threw.message = <<"SyntaxError">>
    /\ pc = "failed"
    /\ invocations = 2
    /\ \E i \in 1..Len(nativeHistory) : nativeHistory[i].role = "tool"

(* Claims about the two-phase transfer, under Spec *)

\* a tool result that holds the preview of a transfer
IsPreview(m) ==
    /\ m.role = "tool"
    /\ "result" \in DOMAIN m.toolResult
    /\ "transfer" \in DOMAIN m.toolResult.result
    /\ m.toolResult.result.transfer = "preview"

\* the handler of transfer_money is running with isConfirmed = true
ConfirmedTransferRuns ==
    /\ pc = "awaitTool"
    /\ exec.kind = "awaiting"
    /\ exec.toolCall.name = "transfer_money"
    /\ ArgGet(exec.toolCall.args, "isConfirmed") = "true"

\* C27: whenever transfer_money runs with isConfirmed = true, the transcript
\* of the loop holds, before the call, a tool result with the preview of a
\* transfer and a user turn after that preview.
C27_ConfirmedTransferFollowsPreview ==
    ConfirmedTransferRuns
    => LET back == toAgnosticFormat(historyManager, nativeHistory)
       IN  /\ back.ok
           /\ \E i, j \in 1..Len(back.messages) :
                 /\ i < j
                 /\ IsPreview(back.messages[i])
                 /\ back.messages[j].role = "user"

(* Claims about the validation of agnostic messages, under SpecConvert *)

\* messages the LLMMessage type rules out and a caller can still hand over:
\* a role that is none of user, assistant, tool, and a tool turn that has
\* no toolResult
MalformedMessages ==
    { [role |-> "system", content |-> "You are a banking assistant."],
      [role |-> "tool"] }

IsWellFormed(m) ==
    /\ m.role \in {"user", "assistant", "tool"}
    /\ m.role = "tool" => "toolResult" \in DOMAIN m

ConvertLists ==
    UNION { [1..n -> AgnosticMessages \cup MalformedMessages] : n \in 0..MaxLen }

ConvertNext ==
    \E manager \in Managers : ToProviderFormat(manager)

InitConvert ==
    /\ toolRegistry = ConstructedRegistry
    /\ exec = NoExec
    /\ firstReg = [n \in RegNames |->
                     IF n = "echo"
                     THEN [definition |-> EchoDefinition, handler |-> "echo"]
                     ELSE NoReg]
    /\ lastOp = [op |-> "constructor"]
    /\ sessions = << >>
    /\ shared = FALSE
    /\ svc = "none"
    /\ model = "none"
    /\ pc = "idle"
    /\ providerName = "none"
    /\ historyManager = "none"
    /\ nativeHistory = << >>
    /\ depth = 0
    /\ response = NoResponse
    /\ idx = 0
    /\ outcome = NoOutcome
    /\ invocations = 0
    /\ roundStart = 0
    /\ started = 0
    /\ userTurn = 0
    /\ now = 0
    /\ touched = << >>
    /\ requests = << >>
    /\ owner = << >>
    /\ alone = << >>
    /\ inputMessages \in ConvertLists
    /\ arrays = << >>
    /\ call = [op |-> "none"]
    /\ CfgIdle

SpecConvert == InitConvert /\ [][ConvertNext]_vars

\* C28: toProviderFormat of either adapter, given a list that holds a
\* message whose role is none of user, assistant and tool, or a tool
\* message without a toolResult, throws an error and returns no list.
C28_MalformedMessagesRejected ==
    (/\ call.op = "toProviderFormat"
     /\ \E i \in 1..Len(inputMessages) : ~IsWellFormed(inputMessages[i]))
    => /\ "threw" \in DOMAIN call
       /\ "ret" \notin DOMAIN call

(* Claims about the length of the stored transcript, under Spec *)

\* C30: in every state, the states in which a loop of ChatService is
\* suspended in the middle of a round included, the nativeHistory the
\* session store holds for a session has at most MAX_HISTORY_LENGTH entries.
C30_StoredHistoryWithinCap ==
    \A id \in DOMAIN sessions :
        Len(sessions[id].nativeHistory) <= MAX_HISTORY_LENGTH

(* Claims about what other tasks read from the store, under Spec *)

\* the number of tool calls a Gemini transcript entry asks for
CallsOf(e) ==
    IF e.role = "model"
    THEN Cardinality({ k \in 1..Len(e.parts) : IsFunctionCallPart(e.parts[k]) })
    ELSE 0

\* the transcript holds a tool-call turn that is not followed by one
\* functionResponse entry for each of its calls
HasDanglingCall(history) ==
    \E i \in 1..Len(history) :
        \E k \in 1..CallsOf(history[i]) :
            \/ i + k > Len(history)
            \/ /\ i + k <= Len(history)
               /\ ~IsFunctionResponsePart(history[i + k].parts[1])

\* the loop of ChatService is suspended on the model or on a tool handler:
\* other tasks run, and getSession or processMessage may read the store
LoopSuspended == svc = "chat" /\ pc \in {"awaitModel", "awaitTool"}

\* C31: while a loop of ChatService is suspended, the transcript the store
\* holds for a session, which getSession returns and a second
\* processMessage copies and sends to the model, has no tool-call turn with
\* an unanswered call.
C31_NoDanglingCallObservable ==
    LoopSuspended
    => \A id \in DOMAIN sessions : ~HasDanglingCall(sessions[id].nativeHistory)

---------------------------------------------------------------------------
(* Requests on one session id with deleteSession called in between         *)

\* SessionCacheService.deleteSession, called while requests are in flight
RequestDeletesSession(sessionId) ==
    /\ sessionId \in DOMAIN sessions
    /\ sessions' = deleteSession(sessions, sessionId)
    /\ alone' = [alone EXCEPT ![sessionId] = deleteSession(@, sessionId)]
    /\ owner' = [owner EXCEPT ![sessionId] = "none"]
    /\ lastOp' = [op |-> "deleteSession", sessionId |-> sessionId,
                  before |-> sessions, ret |-> TRUE]
    /\ UNCHANGED <<toolRegistry, exec, firstReg, shared, svc, model, pc,
                   providerName, historyManager, nativeHistory, depth, response,
                   idx, outcome, invocations, roundStart, started, userTurn,
                   now, touched, requests, adapterVars, cfgVars>>

DeletionNext ==
    \/ \E r \in RequestIds : RequestStarts(r, SessionId)
    \/ \E r \in RequestIds, e \in VendorErrors : RequestModelFails(r, e)
    \/ \E r \in RequestIds : \E reply \in RequestReplies(r) : RequestGetsText(r, reply)
    \/ \E r \in RequestIds : \E reply \in RequestReplies(r) :
            RequestGetsToolCalls(r, reply)
    \/ \E r \in RequestIds, settled \in RequestSettlements :
            RequestToolReturns(r, settled)
    \/ RequestDeletesSession(SessionId)

SpecDeletion == InitRequests /\ [][DeletionNext]_vars

(* Claims about deletion, under SpecDeletion *)

\* the entries of a transcript
Entries(history) == { history[i] : i \in 1..Len(history) }

\* C32: once deleteSession(id) removed a session, no entry its transcript
\* held at that time is in the store under id again, whatever the requests
\* for id that were in flight and those that arrive afterwards do.
C32_DeletedEntriesStayDeleted ==
    (/\ lastOp.op = "deleteSession"
     /\ lastOp.sessionId \in DOMAIN sessions)
    => Entries(sessions[lastOp.sessionId].nativeHistory)
       \cap Entries(lastOp.before[lastOp.sessionId].nativeHistory) = {}

(* Claims about expired sessions, under SpecStore *)

\* C33: getOrCreateSession for a session whose last activity is more than
\* TTL_MS in the past, the periodic sweep not having removed it yet, returns
\* a session with an empty nativeHistory, as getSession would report the
\* session absent.
C33_ExpiredTranscriptNotReused ==
    (/\ lastOp.op = "getOrCreateSession"
     /\ lastOp.sessionId \in DOMAIN lastOp.before
     /\ Age(lastOp.before[lastOp.sessionId]) > TTL_MS)
    => /\ lastOp.ret.nativeHistory = << >>
       /\ getSession(lastOp.before, lastOp.sessionId).ret = NullObject

(* Claims about what a request of ChatService leaves in the store, under Spec *)

\* the first model invocation of a request of ChatService failed
FirstInvocationFailed ==
    /\ svc = "chat"
    /\ pc = "failed"
    /\ outcome.kind = "rejected"
    /\ outcome.at = "model"
    /\ invocations = 1

\* the transcript the request found in the store: the loop's transcript
\* without the user turn of the request and what follows it
FoundAtStart == SubSeq(nativeHistory, 1, userTurn - 1)

\* C34: when the first model invocation of a request of ChatService fails,
\* the stored nativeHistory of the session is the one the request found:
\* the user turn is not stored, no entry is added and none removed.
C34_FailedFirstInvocationStoresNothing ==
    (FirstInvocationFailed /\ SessionId \in DOMAIN sessions)
    => sessions[SessionId].nativeHistory = FoundAtStart

\* the request found two entries in the store, its first invocation failed
C34_Witness ==
    /\ FirstInvocationFailed
    /\ SessionId \in DOMAIN sessions
    /\ Len(sessions[SessionId].nativeHistory) = 2
    /\ Len(nativeHistory) = 3

\* processMessage of ChatService returns a response with a non-empty text
ReturnsText ==
    /\ svc = "chat"
    /\ pc # "done"
    /\ pc' = "done"
    /\ outcome'.kind = "resolved"
    /\ Truthy(outcome'.response.text)

C35_Step ==
    ReturnsText
    => /\ SessionId \in DOMAIN sessions'
       /\ LET stored == sessions'[SessionId].nativeHistory
          IN  /\ Len(stored) > 0
              /\ stored[Len(stored)] =
                   [role |-> "model",
                    parts |-> <<[text |-> outcome'.response.text]>>]

\* C35: whenever processMessage of ChatService returns a response with a
\* non-empty text, the last entry of the session's stored transcript is a
\* model text turn that carries exactly that text.
C35_ReturnedTextIsStored == [][C35_Step]_vars

(* Claims about the lastToolResult of a response, under SpecRequests *)

\* the part of the transcript of request r that the request made: its user
\* turn and what follows it
OwnTurns(r) ==
    LET h == requests[r].history
        i == CHOOSE k \in 1..Len(h) :
                h[k] = [role |-> "user", parts |-> <<[text |-> RequestMessage(r)]>>]
    IN  SubSeq(h, i, Len(h))

\* C36: the lastToolResult of the response processMessage of ChatService
\* returns is null when the request executed no tool, and otherwise names
\* the last tool the request executed with its result; it is never a tool
\* result an earlier request of the session left in the transcript.
C36_LastToolResultIsOfThisRequest ==
    \A r \in RequestIds :
        (requests[r].pc = "done" /\ requests[r].outcome.kind = "resolved")
        => requests[r].outcome.lastToolResult
             = lastToolResult(DefaultProvider, OwnTurns(r))

---------------------------------------------------------------------------
(* The tool list OrchestratorService.processMessage sends to the model     *)

\* a Map.set that leaves the entry of a key already present as it is
MapSetKeepsFirst(entries, key, value) ==
    IF \E i \in 1..Len(entries) : entries[i].key = key
    THEN entries
    ELSE Append(entries, [key |-> key, value |-> value])

\* Map.set: a key already present keeps its place and gets the new value
MapSet(entries, key, value) ==
    IF \E i \in 1..Len(entries) : entries[i].key = key
    THEN [i \in 1..Len(entries) |->
            IF entries[i].key = key THEN [key |-> key, value |-> value]
            ELSE entries[i]]
    ELSE Append(entries, [key |-> key, value |-> value])

\* new Map(allTools.map((t) => [t.name, t]))
RECURSIVE MapByName(_)
MapByName(tools) ==
    IF tools = << >> THEN << >>
    ELSE LET last == tools[Len(tools)]
         IN  MapSet(MapByName(SubSeq(tools, 1, Len(tools) - 1)), last.name, last)

\* Array.from(new Map(...).values()) of [...llmConfig.tools, ...registered]
uniqueTools(configTools, registry) ==
    LET byName == MapByName(configTools \o getRegisteredTools(registry))
    IN  [i \in 1..Len(byName) |-> byName[i].value]

\* tool definitions of a configuration: a name the registry has too, and a
\* name given twice
ConfigDefinitions ==
    { ToolDef("echo", "echo of the configuration"),
      ToolDef("search", "search the web"),
      ToolDef("search", "search the documents") }

ConfigTools == UNION { [1..n -> ConfigDefinitions] : n \in 0..MaxLen }

OrchMergesTools(configTools) ==
    /\ call' = [op |-> "uniqueTools", tools |-> configTools,
                registered |-> getRegisteredTools(toolRegistry),
                ret |-> uniqueTools(configTools, toolRegistry)]
    /\ UNCHANGED <<toolVars, loopVars, now, touched, requests, owner, alone,
                   inputMessages, arrays, cfgVars>>

MergeNext ==
    \/ \E n \in RegNames, d \in RegDescriptions : RegisterTool(ToolDef(n, d), "customA")
    \/ \E n \in RegNames : UnregisterTool(n)
    \/ \E tools \in ConfigTools : OrchMergesTools(tools)

SpecMerge == InitTools /\ [][MergeNext]_vars

(* Claims about the tool list, under SpecMerge *)

NamesOf(tools) == { tools[i].name : i \in 1..Len(tools) }

\* C37: the tool list OrchestratorService.processMessage sends holds each
\* tool name at most once, holds every name of llmConfig.tools and of the
\* registry and no other, and for a name that both have it holds the
\* definition of the registry.
C37_UniqueToolsRegistryWins ==
    call.op = "uniqueTools"
    => /\ \A i, j \in 1..Len(call.ret) :
             call.ret[i].name = call.ret[j].name => i = j
       /\ NamesOf(call.ret) = NamesOf(call.tools) \cup NamesOf(call.registered)
       /\ \A i \in 1..Len(call.ret) :
             \A k \in 1..Len(call.registered) :
                call.registered[k].name = call.ret[i].name
                => call.ret[i] = call.registered[k]

\* the configuration names echo, which the registry has with another
\* description, and search twice
C37_Witness ==
    /\ call.op = "uniqueTools"
    /\ Len(call.tools) = 2
    /\ Len(call.registered) = 2
    /\ \E i \in 1..2, k \in 1..2 :
          /\ call.tools[i].name = call.registered[k].name
          /\ call.tools[i] # call.registered[k]
    /\ Len(call.ret) = 3

(* Claims about the length of the time-to-live, under SpecStore *)

\* the 30 minutes the documentation of SESSION_CACHE_CONFIG.TTL_MS states
DocumentedTTL == 30 * 60 * 1000

\* C38: the time-to-live getSession and the periodic sweep use is 30
\* minutes, 1,800,000 ms: getSession reports a session absent exactly when
\* its last activity is more than 30 minutes in the past, and the sweep
\* removes exactly the sessions of that age.
C38_TTLIsThirtyMinutes ==
    /\ (lastOp.op = "getSession" /\ lastOp.sessionId \in DOMAIN lastOp.before)
       => (lastOp.ret = NullObject
           <=> Age(lastOp.before[lastOp.sessionId]) > DocumentedTTL)
    /\ lastOp.op = "cleanupExpiredSessions"
       => \A id \in DOMAIN lastOp.before :
             id \notin DOMAIN sessions <=> Age(lastOp.before[id]) > DocumentedTTL

====
